---- MODULE Spec2Model ----
(***************************************************************************)
(* A model of the ABI codec of src/123.ts: BigNumber, Writer, Reader, the  *)
(* coder hierarchy (pack / unpack), AbiCoder and the Interface lookups.    *)
(*                                                                         *)
(* Bytes are sequences of 0..255.  A BigNumber is its _hex string: a sign  *)
(* and the big-endian bytes of the magnitude (toHex keeps an even number   *)
(* of hex digits and no leading 00 byte).  The logger is in its initial    *)
(* state (_censorErrors = false), so every throwError raises an error      *)
(* carrying the given code.                                                *)
(***************************************************************************)
EXTENDS Integers, Sequences, FiniteSets, TLC

VARIABLES
    \* one NumberCoder: coder, input, encode outcome, word read back, decode outcome
    nPc, nCoder, nIn, nValue, nEnc, nWord, nDec,
    \* AbiCoder.encode then AbiCoder.decode; pack onto a destination writer
    cPc, cTypes, cValues, cEnc, cDec, cDest, cPack,
    \* AbiCoder.decode of received data, then reads of the Result
    dPc, dTypes, dData, dRes, dRead,
    \* Interface.decodeFunctionResult
    fPc, fReceiver, fFragment, fData, fRes,
    \* Interface lookups
    iPc, iFace, iKey, iRes,
    \* Interface.encodeFunctionData and Interface.decodeFunctionData
    xPc, xFragment, xValues, xData, xRes,
    \* Interface.decodeEventLog and Interface.encodeFilterTopics
    ePc, eFragment, eIn, eOut,
    \* parseParamType, ParamType.fromString and ParamType.format
    pPc, pIn, pOut,
    \* verifyState
    sPc, sIn, sOut,
    \* ErrorFragment.from
    gPc, gIn, gOut,
    \* AbiCoder._getCoder
    kPc, kIn, kOut,
    \* BigNumber.div and BigNumber.mod
    bPc, bIn, bOut,
    \* one Reader: its data and cursor, and the outcome of the last read
    rPc, rReader, rOut,
    \* Logger: the censorship flags and the outcome of the last call
    lPc, lCensor, lPermanent, lOut,
    \* one Writer, the updaters it handed out, and the outcome of the last call
    wPc, wWriter, wUpdaters, wOut,
    \* arrayify and hexlify
    hPc, hIn, hOut

nVars == <<nPc, nCoder, nIn, nValue, nEnc, nWord, nDec>>
cVars == <<cPc, cTypes, cValues, cEnc, cDec, cDest, cPack>>
dVars == <<dPc, dTypes, dData, dRes, dRead>>
fVars == <<fPc, fReceiver, fFragment, fData, fRes>>
iVars == <<iPc, iFace, iKey, iRes>>
xVars == <<xPc, xFragment, xValues, xData, xRes>>
eVars == <<ePc, eFragment, eIn, eOut>>
pVars == <<pPc, pIn, pOut>>
sVars == <<sPc, sIn, sOut>>
gVars == <<gPc, gIn, gOut>>
kVars == <<kPc, kIn, kOut>>
bVars == <<bPc, bIn, bOut>>
rVars == <<rPc, rReader, rOut>>
lVars == <<lPc, lCensor, lPermanent, lOut>>
wVars == <<wPc, wWriter, wUpdaters, wOut>>
hVars == <<hPc, hIn, hOut>>

\* the areas of the interface and the codec, and those of the utilities
oVars == <<nVars, cVars, dVars, fVars, iVars, xVars, eVars, pVars, sVars>>
qVars == <<gVars, kVars, bVars, rVars, lVars, wVars, hVars>>

vars == <<oVars, qVars>>

\* the parts of the state an area does not use
nIdle == nPc = "idle" /\ nCoder = 0 /\ nIn = 0 /\ nValue = 0 /\ nEnc = 0 /\ nWord = 0 /\ nDec = 0
cIdle == cPc = "idle" /\ cTypes = 0 /\ cValues = 0 /\ cEnc = 0 /\ cDec = 0 /\ cDest = 0 /\ cPack = 0
dIdle == dPc = "idle" /\ dTypes = 0 /\ dData = 0 /\ dRes = 0 /\ dRead = 0
fIdle == fPc = "idle" /\ fReceiver = 0 /\ fFragment = 0 /\ fData = 0 /\ fRes = 0
iIdle == iPc = "idle" /\ iFace = 0 /\ iKey = 0 /\ iRes = 0
xIdle == xPc = "idle" /\ xFragment = 0 /\ xValues = 0 /\ xData = 0 /\ xRes = 0
eIdle == ePc = "idle" /\ eFragment = 0 /\ eIn = 0 /\ eOut = 0
pIdle == pPc = "idle" /\ pIn = 0 /\ pOut = 0
sIdle == sPc = "idle" /\ sIn = 0 /\ sOut = 0
gIdle == gPc = "idle" /\ gIn = 0 /\ gOut = 0
kIdle == kPc = "idle" /\ kIn = 0 /\ kOut = 0
bIdle == bPc = "idle" /\ bIn = 0 /\ bOut = 0
rIdle == rPc = "idle" /\ rReader = 0 /\ rOut = 0
lIdle == lPc = "idle" /\ lCensor = 0 /\ lPermanent = 0 /\ lOut = 0
wIdle == wPc = "idle" /\ wWriter = 0 /\ wUpdaters = 0 /\ wOut = 0
hIdle == hPc = "idle" /\ hIn = 0 /\ hOut = 0
oIdle == nIdle /\ cIdle /\ dIdle /\ fIdle /\ iIdle /\ xIdle /\ eIdle /\ pIdle /\ sIdle
qIdle == gIdle /\ kIdle /\ bIdle /\ rIdle /\ lIdle /\ wIdle /\ hIdle

\* ------------------------------------------------------------------------
\* Error codes (enum ErrorCode) and outcomes of a call
\* ------------------------------------------------------------------------
BUFFER_OVERRUN == "BUFFER_OVERRUN"
NUMERIC_FAULT == "NUMERIC_FAULT"
INVALID_ARGUMENT == "INVALID_ARGUMENT"
MISSING_ARGUMENT == "MISSING_ARGUMENT"
UNEXPECTED_ARGUMENT == "UNEXPECTED_ARGUMENT"
CALL_EXCEPTION == "CALL_EXCEPTION"
UNSUPPORTED_OPERATION == "UNSUPPORTED_OPERATION"
\* a JavaScript TypeError (no code property)
TYPE_ERROR == "TypeError"
\* `throw new Error(...)` without a code
PLAIN_ERROR == "Error"

None == [k |-> "none"]

\* Logger.makeError with _censorErrors = false: an Error with reason and code
makeError(message, code) == [k |-> "error", code |-> code, reason |-> message]

\* ------------------------------------------------------------------------
\* Bytes
\* ------------------------------------------------------------------------
wordSize == 32

Max(a, b) == IF a > b THEN a ELSE b
Min(a, b) == IF a < b THEN a ELSE b

Zeros(n) == [i \in 1..n |-> 0]
Ones(n) == [i \in 1..n |-> 255]

\* Uint8Array.prototype.slice(start, end) with 0 <= start, 0-based, end exclusive
Slice(s, start, end) ==
    LET e == Min(end, Len(s))
    IN  IF start >= e THEN <<>> ELSE SubSeq(s, start + 1, e)

PadLeft(m, n) == IF Len(m) >= n THEN m ELSE Zeros(n - Len(m)) \o m

\* toHex: "Trim to smallest even-length string", "0x" is "0x00"
Strip(s) ==
    IF \A i \in 1..Len(s) : s[i] = 0 THEN <<0>>
    ELSE SubSeq(s, CHOOSE i \in 1..Len(s) : s[i] # 0 /\ \A j \in 1..(i - 1) : s[j] = 0, Len(s))

\* ------------------------------------------------------------------------
\* BN (the `bn` library the BigNumber methods delegate to) on magnitudes
\* ------------------------------------------------------------------------
RECURSIVE IntToMag(_)
IntToMag(n) == IF n < 256 THEN <<n>> ELSE IntToMag(n \div 256) \o <<n % 256>>

RECURSIVE MagToInt(_)
MagToInt(m) == IF m = <<>> THEN 0 ELSE MagToInt(SubSeq(m, 1, Len(m) - 1)) * 256 + m[Len(m)]

MagCmp(a0, b0) ==
    LET a == Strip(a0)
        b == Strip(b0)
        d == {i \in 1..Len(a) : Len(a) = Len(b) /\ a[i] # b[i]}
    IN  IF Len(a) < Len(b) THEN -1
        ELSE IF Len(a) > Len(b) THEN 1
        ELSE IF d = {} THEN 0
        ELSE LET i == CHOOSE j \in d : \A l \in d : j <= l
             IN  IF a[i] < b[i] THEN -1 ELSE 1

\* the last index of m that does not hold b, 0 when every byte is b
LastNot(m, b) ==
    IF \A i \in 1..Len(m) : m[i] = b THEN 0
    ELSE CHOOSE i \in 1..Len(m) : m[i] # b /\ \A j \in (i + 1)..Len(m) : m[j] = b

\* BN.iaddn(1): the carry runs through the trailing 0xff bytes
MagInc(m) ==
    IF LastNot(m, 255) = 0 THEN <<1>> \o Zeros(Len(m))
    ELSE [i \in 1..Len(m) |-> IF i < LastNot(m, 255) THEN m[i]
                               ELSE IF i = LastNot(m, 255) THEN m[i] + 1 ELSE 0]

\* BN.isubn(1) of a positive number: the borrow runs through the trailing zeros
MagDec(m) ==
    [i \in 1..Len(m) |-> IF i < LastNot(m, 0) THEN m[i]
                          ELSE IF i = LastNot(m, 0) THEN m[i] - 1 ELSE 255]

\* BN.inotn(width) for a width of whole bytes: the low width bits are
\* flipped (the number is first extended to that width)
MagNot(m, wbytes) ==
    LET p == PadLeft(m, wbytes)
        n == Len(p)
    IN  Strip([i \in 1..n |-> IF i > n - wbytes THEN 255 - p[i] ELSE p[i]])

\* BN.maskn(bits): the low `bits` bits
MagMask(m, bits) ==
    LET nb == bits \div 8
        r == bits % 8
        L == Len(m)
        low == IF nb >= L THEN m ELSE SubSeq(m, L - nb + 1, L)
        top == IF r > 0 /\ L > nb THEN <<m[L - nb] % (2 ^ r)>> ELSE <<>>
    IN  Strip(top \o low)

\* BN.testn(bit)
MagTestn(m, bit) ==
    LET bi == bit \div 8
        L == Len(m)
    IN  IF bi >= L THEN FALSE ELSE ((m[L - bi] \div (2 ^ (bit % 8))) % 2) = 1

\* BN.bitLength()
MagBitLength(m0) ==
    LET m == Strip(m0)
        t == m[1]
        tb == IF t = 0 THEN 0 ELSE CHOOSE b \in 1..8 : 2 ^ (b - 1) <= t /\ t < 2 ^ b
    IN  (Len(m) - 1) * 8 + tb

\* ------------------------------------------------------------------------
\* BigNumber
\* ------------------------------------------------------------------------
\* toBigNumber(bn) = BigNumber.from(toHex(bn)): toHex never yields "-0x00"
toBigNumber(neg, mag) ==
    LET m == Strip(mag) IN [neg |-> neg /\ m # <<0>>, mag |-> m]

BigNumber_fromBytes(bytes) == toBigNumber(FALSE, bytes)

\* BigNumber.from(number) for a safe integer
BigNumber_fromNumber(n) == IF n < 0 THEN toBigNumber(TRUE, IntToMag(-n)) ELSE toBigNumber(FALSE, IntToMag(n))

MaxUint256 == [neg |-> FALSE, mag |-> Ones(32)]
NegativeOne == [neg |-> TRUE, mag |-> <<1>>]
Zero == [neg |-> FALSE, mag |-> <<0>>]
One == [neg |-> FALSE, mag |-> <<1>>]

isNegative(x) == x.neg

\* BigNumber.mask on a non-negative value (a negative one is a numeric fault)
mask(x, bits) == toBigNumber(FALSE, MagMask(x.mag, bits))

\* BigNumber.add for the case the codec uses: a non-negative value plus One
addOne(x) == toBigNumber(FALSE, MagInc(x.mag))

\* BigNumber.mul(NegativeOne)
mulNegativeOne(x) == toBigNumber(~x.neg, x.mag)

\* BN.cmp
BnCmp(x, y) ==
    IF x.neg /\ ~y.neg THEN -1
    ELSE IF ~x.neg /\ y.neg THEN 1
    ELSE IF x.neg THEN MagCmp(y.mag, x.mag)
    ELSE MagCmp(x.mag, y.mag)

gt(x, y) == BnCmp(x, y) = 1
lt(x, y) == BnCmp(x, y) = -1
isZero(x) == x.mag = <<0>>

\* BN.toTwos(width): negative -> abs().inotn(width).iaddn(1)
toTwos(x, width) ==
    IF x.neg THEN toBigNumber(FALSE, MagInc(MagNot(x.mag, width \div 8)))
    ELSE toBigNumber(FALSE, x.mag)

\* BN.fromTwos(width): testn(width - 1) -> notn(width).iaddn(1).ineg()
fromTwos(x, width) ==
    IF MagTestn(x.mag, width - 1)
    THEN toBigNumber(TRUE, MagInc(MagNot(x.mag, width \div 8)))
    ELSE toBigNumber(x.neg, x.mag)

\* A JavaScript number too large for any buffer of the model; stands for
\* every safe integer of 2^24 or more
HugeNumber == 16777216

\* BigNumber.toNumber: BN.toNumber throws above 53 bits -> numeric fault
toNumberFaults(x) == MagBitLength(x.mag) > 53

toNumber(x) ==
    LET n == IF Len(x.mag) > 3 THEN HugeNumber ELSE MagToInt(x.mag)
    IN  IF x.neg THEN 0 - n ELSE n

\* ------------------------------------------------------------------------
\* Values.  A decoded or encodable value is a record tagged by k.
\* ------------------------------------------------------------------------
\* a number: js = TRUE for a JavaScript number, FALSE for a BigNumber
VNum(x, js) == [k |-> "num", js |-> js, neg |-> x.neg, mag |-> x.mag]
VBool(b) == [k |-> "bool", b |-> b]
\* a hex string (bytes, bytesN) and an address, by their bytes
VHex(bytes) == [k |-> "hex", x |-> bytes]
VAddress(bytes) == [k |-> "address", x |-> bytes]
\* a string, by its UTF-16 code units
VString(units) == [k |-> "string", x |-> units]
\* an array: the input of a tuple or array coder
VList(items) == [k |-> "list", x |-> items]
VNull == [k |-> "null"]

\* BigNumber.from(value) for the values above that are BigNumberish
BigNumber_from(v) == [neg |-> v.neg, mag |-> v.mag]

\* outcomes
Ok(v) == [ok |-> TRUE, v |-> v]

\* The(S) is the element of a one-element set S.  The({e : x \in {d}}) is
\* LET x == d IN e with d worked out once, for a d that is a whole call
The(S) == CHOOSE v \in S : TRUE
Err(e) == [ok |-> FALSE, err |-> e]

\* ------------------------------------------------------------------------
\* Writer
\* ------------------------------------------------------------------------
\* new Writer(wordSize): _data = [], _dataLength = 0 and _padding = new
\* Uint8Array(wordSize), of the argument as it was given: 0 stands for a
\* falsy argument (left out, or 0), for which this.wordSize is 32 and the
\* padding is empty
Writer_new(wordSizeGiven) == [data |-> <<>>, len |-> 0, padding |-> Zeros(wordSizeGiven)]

\* new Writer(this._getWordSize()), new Writer(writer.wordSize)
NewWriter == Writer_new(wordSize)

RECURSIVE concat(_)
concat(items) == IF items = <<>> THEN <<>> ELSE Head(items) \o concat(Tail(items))

\* Writer._writeData
Writer_writeData(w, data) == [w EXCEPT !.data = Append(w.data, data), !.len = w.len + Len(data)]

\* Writer.appendWriter
Writer_appendWriter(w, writer) == Writer_writeData(w, concat(writer.data))

\* Writer.writeBytes: padded on the right to wordSize
Writer_writeBytes(w, bytes) ==
    LET paddingOffset == Len(bytes) % wordSize
    IN  Writer_writeData(w, IF paddingOffset # 0
                            THEN bytes \o Slice(w.padding, paddingOffset, Len(w.padding)) ELSE bytes)

\* Writer._getValue: arrayify(BigNumber.from(value)), padded on the left
Writer_getValue(w, x) ==
    IF x.neg THEN Err(makeError("invalid arrayify value", INVALID_ARGUMENT))
    ELSE IF Len(x.mag) > wordSize THEN Err(makeError("value out-of-bounds", BUFFER_OVERRUN))
    ELSE IF Len(x.mag) % wordSize # 0
    THEN Ok(Slice(w.padding, Len(x.mag) % wordSize, Len(w.padding)) \o x.mag)
    ELSE Ok(x.mag)

\* Writer.writeValue: the writer is unchanged when _getValue throws
Writer_writeValue(w, x) ==
    The({ IF b.ok THEN [ok |-> TRUE, w |-> Writer_writeData(w, b.v)]
          ELSE [ok |-> FALSE, w |-> w, err |-> b.err] : b \in {Writer_getValue(w, x)} })

\* Writer.writeUpdatableValue: reserves one word; the updater is identified
\* by the index of the reserved chunk in _data (offset, 0-based)
Writer_writeUpdatableValue(w) == [w EXCEPT !.data = Append(w.data, w.padding), !.len = w.len + wordSize]

\* the closure returned by writeUpdatableValue, called with value
Writer_update(w, offset, x) ==
    The({ IF b.ok THEN [ok |-> TRUE, w |-> [w EXCEPT !.data[offset + 1] = b.v]]
          ELSE [ok |-> FALSE, w |-> w, err |-> b.err] : b \in {Writer_getValue(w, x)} })

\* Writer.data: hexConcat(_data), as bytes
Writer_data(w) == concat(w.data)

\* ------------------------------------------------------------------------
\* Reader
\* ------------------------------------------------------------------------
NewReader(data, allowLoose) == [data |-> data, offset |-> 0, allowLoose |-> allowLoose]

CeilDiv(a, b) == (a + b - 1) \div b

\* the loose exception taken whatever allowLoose is
Reader_peekBytesMut(r, length, loose) ==
    LET alignedLength == CeilDiv(length, wordSize) * wordSize
    IN  IF r.offset + alignedLength > Len(r.data)
        THEN IF loose /\ r.offset + length <= Len(r.data)
             THEN Ok(Slice(r.data, r.offset, r.offset + length))
             ELSE Err(makeError("data out-of-bounds", BUFFER_OVERRUN))
        ELSE Ok(Slice(r.data, r.offset, r.offset + alignedLength))

\* Reader._peekBytes(0, length, loose)
Reader_peekBytes(r, length, loose) ==
    LET alignedLength == CeilDiv(length, wordSize) * wordSize
    IN  IF r.offset + alignedLength > Len(r.data)
        THEN IF r.allowLoose /\ loose /\ r.offset + length <= Len(r.data)
             THEN Ok(Slice(r.data, r.offset, r.offset + length))
             ELSE Err(makeError("data out-of-bounds", BUFFER_OVERRUN))
        ELSE Ok(Slice(r.data, r.offset, r.offset + alignedLength))

\* Reader.subReader(offset)
Reader_subReader(r, offset) == NewReader(Slice(r.data, r.offset + offset, Len(r.data)), r.allowLoose)

\* Reader.readBytes: the cursor moves by the bytes peeked
Reader_readBytes(r, length, loose) ==
    The({ IF p.ok THEN [ok |-> TRUE, v |-> Slice(p.v, 0, length), r |-> [r EXCEPT !.offset = @ + Len(p.v)]]
          ELSE [ok |-> FALSE, err |-> p.err, r |-> r] : p \in {Reader_peekBytes(r, length, loose)} })

\* Reader.readValue: BigNumber.from(readBytes(wordSize))
Reader_readValue(r) ==
    The({ IF b.ok THEN [ok |-> TRUE, v |-> BigNumber_fromBytes(b.v), r |-> b.r] ELSE b :
          b \in {Reader_readBytes(r, wordSize, FALSE)} })

\* Reader.coerce (no coerceFunc): u?intN with N <= 48 becomes a number
Reader_coerceNumber(bits, x) == VNum(x, bits <= 48)

\* ------------------------------------------------------------------------
\* Coders.  kind is the coder class; name, type, localName and dynamic are
\* the fields of Coder.
\* ------------------------------------------------------------------------
MkCoder(kind, size, signed, length, coders, localName, dynamic) ==
    [kind |-> kind, size |-> size, signed |-> signed, length |-> length,
     coders |-> coders, localName |-> localName, dynamic |-> dynamic]

NumberCoder(size, signed, localName) == MkCoder("number", size, signed, 0, <<>>, localName, FALSE)

\* NumberCoder.encode, bounds of a signed value: maxUintValue.mask(size*8 - 1)
NumberCoder_boundsMut(c) == mask(mask(MaxUint256, wordSize * 8), c.size * 8)

NumberCoder_bounds(c) == mask(mask(MaxUint256, wordSize * 8), c.size * 8 - 1)

NumberCoder_outOfBounds(c, v) ==
    \E maxUintValue \in {mask(MaxUint256, wordSize * 8)} :
        \E lo \in {IF c.signed THEN mulNegativeOne(addOne(NumberCoder_bounds(c))) ELSE Zero},
           hi \in {IF c.signed THEN NumberCoder_bounds(c) ELSE mask(maxUintValue, c.size * 8)} :
            gt(v, hi) \/ lt(v, lo)

\* NumberCoder.encode, the value written by a signed coder:
\* v.fromTwos(size*8).toTwos(8*wordSize)
NumberCoder_extendMut(c, v) == v

NumberCoder_extend(c, v) == toTwos(fromTwos(v, c.size * 8), 8 * wordSize)

NumberCoder_encode(c, w, value) ==
    The({ IF NumberCoder_outOfBounds(c, v)
          THEN [ok |-> FALSE, w |-> w, err |-> makeError("value out-of-bounds", INVALID_ARGUMENT)]
          ELSE The({ Writer_writeValue(w, IF c.signed THEN NumberCoder_extend(c, v1) ELSE v1) :
                     v1 \in {mask(toTwos(v, c.size * 8), c.size * 8)} }) :
          v \in {BigNumber_from(value)} })

\* NumberCoder.decode, the sign conversion: value.fromTwos(size*8)
NumberCoder_signMut(c, value) == value

NumberCoder_sign(c, value) == fromTwos(value, c.size * 8)

NumberCoder_decode(c, r) ==
    The({ IF ~rv.ok THEN rv
          ELSE The({ [ok |-> TRUE, r |-> rv.r,
                      v |-> Reader_coerceNumber(c.size * 8, IF c.signed THEN NumberCoder_sign(c, value) ELSE value)] :
                     value \in {mask(rv.v, c.size * 8)} }) :
          rv \in {Reader_readValue(r)} })


\* ------------------------------------------------------------------------
\* UTF-8 (strings are sequences of UTF-16 code units)
\* ------------------------------------------------------------------------
\* toUtf8Bytes with the default normalization form
RECURSIVE toUtf8Bytes(_)
toUtf8Bytes(str) ==
    \* code units below 0x80 are pushed as they are
    IF \A i \in 1..Len(str) : str[i] < 128 THEN Ok(str)
    ELSE LET c == Head(str) IN
         IF c < 128 THEN
            LET rest == toUtf8Bytes(Tail(str))
            IN  IF rest.ok THEN Ok(<<c>> \o rest.v) ELSE rest
         ELSE IF c < 2048 THEN
            LET rest == toUtf8Bytes(Tail(str))
            IN  IF rest.ok THEN Ok(<<(c \div 64) + 192, (c % 64) + 128>> \o rest.v) ELSE rest
         ELSE IF c \div 1024 = 54 THEN
            \* (c & 0xfc00) == 0xd800: a high surrogate needs a low one
            IF Len(str) < 2 \/ str[2] \div 1024 # 55
            THEN Err([k |-> "error", code |-> PLAIN_ERROR, reason |-> "invalid utf-8 string"])
            ELSE LET pair == 65536 + (c % 1024) * 1024 + (str[2] % 1024)
                     rest == toUtf8Bytes(Tail(Tail(str)))
                 IN  IF rest.ok
                     THEN Ok(<<(pair \div 262144) + 240, ((pair \div 4096) % 64) + 128,
                               ((pair \div 64) % 64) + 128, (pair % 64) + 128>> \o rest.v)
                     ELSE rest
         ELSE
            LET rest == toUtf8Bytes(Tail(str))
            IN  IF rest.ok
                THEN Ok(<<(c \div 4096) + 224, ((c \div 64) % 64) + 128, (c % 64) + 128>> \o rest.v)
                ELSE rest

\* the continuation bytes of one code point: res << 6 | (nextChar & 0x3f)
RECURSIVE Utf8Continue(_, _, _, _)
Utf8Continue(bytes, i, n, res) ==
    IF n = 0 THEN Ok(res)
    ELSE IF bytes[i] \div 64 # 2 THEN Err("missing continuation byte")
    ELSE Utf8Continue(bytes, i + 1, n - 1, res * 64 + (bytes[i] % 64))

\* the index after the run of one-byte code points (c < 0x80) that starts at i
oneByteEnd(bytes, i) ==
    CHOOSE j \in i..(Len(bytes) + 1) :
        /\ \A k \in i..(j - 1) : bytes[k] < 128
        /\ (j > Len(bytes) \/ bytes[j] >= 128)

\* getUtf8CodePoints with onError = errorFunc, which throws on every error;
\* i is the 1-based index of the next byte
RECURSIVE getUtf8CodePoints(_, _)
getUtf8CodePoints(bytes, i) ==
    IF i > Len(bytes) THEN Ok(<<>>)
    ELSE LET c == bytes[i]
             extraLength == IF c \div 32 = 6 THEN 1 ELSE IF c \div 16 = 14 THEN 2
                            ELSE IF c \div 8 = 30 THEN 3 ELSE 0
             overlongMask == IF extraLength = 1 THEN 127 ELSE IF extraLength = 2 THEN 2047 ELSE 65535
             bad(reason) == Err(makeError(reason, INVALID_ARGUMENT))
         IN  IF c < 128 THEN
                \* the loop takes a run of one-byte code points as they are
                The({ IF rest.ok THEN Ok(SubSeq(bytes, i, oneByteEnd(bytes, i) - 1) \o rest.v) ELSE rest :
                      rest \in {getUtf8CodePoints(bytes, oneByteEnd(bytes, i))} })
             ELSE IF extraLength = 0 THEN
                IF c \div 64 = 2 THEN bad("unexpected continuation byte") ELSE bad("bad codepoint prefix")
             ELSE IF i - 1 + extraLength >= Len(bytes) THEN bad("string overrun")
             ELSE LET res == Utf8Continue(bytes, i + 1, extraLength, c % (2 ^ (7 - extraLength)))
                  IN  IF ~res.ok THEN bad(res.err)
                      ELSE IF res.v > 1114111 THEN bad("out of UTF-8 range")
                      ELSE IF res.v >= 55296 /\ res.v <= 57343 THEN bad("UTF-16 surrogate")
                      ELSE IF res.v <= overlongMask THEN bad("overlong representation")
                      ELSE LET rest == getUtf8CodePoints(bytes, i + 1 + extraLength)
                           IN  IF rest.ok THEN Ok(<<res.v>> \o rest.v) ELSE rest

\* _toUtf8String: code points back to UTF-16 code units
RECURSIVE toUtf8StringUnits(_)
toUtf8StringUnits(codePoints) ==
    IF \A i \in 1..Len(codePoints) : codePoints[i] <= 65535 THEN codePoints
    ELSE LET cp == Head(codePoints) IN
         (IF cp <= 65535 THEN <<cp>>
          ELSE <<(((cp - 65536) \div 1024) % 1024) + 55296, ((cp - 65536) % 1024) + 56320>>)
         \o toUtf8StringUnits(Tail(codePoints))

toUtf8String(bytes) ==
    The({ IF cps.ok THEN Ok(toUtf8StringUnits(cps.v)) ELSE cps : cps \in {getUtf8CodePoints(bytes, 1)} })

\* ------------------------------------------------------------------------
\* The static coders
\* ------------------------------------------------------------------------
AddressCoder(localName) == MkCoder("address", 0, FALSE, 0, <<>>, localName, FALSE)
BooleanCoder(localName) == MkCoder("bool", 0, FALSE, 0, <<>>, localName, FALSE)
StringCoder(localName) == MkCoder("string", 0, FALSE, 0, <<>>, localName, TRUE)
BytesCoder(localName) == MkCoder("bytes", 0, FALSE, 0, <<>>, localName, TRUE)
FixedBytesCoder(size, localName) == MkCoder("fixedbytes", size, FALSE, 0, <<>>, localName, FALSE)
NullCoder(localName) == MkCoder("null", 0, FALSE, 0, <<>>, localName, FALSE)

\* Coder._throwError
Coder_throwError(w, message) == [ok |-> FALSE, w |-> w, err |-> makeError(message, INVALID_ARGUMENT)]

\* AddressCoder.encode: getAddress(value) accepts the 0x-prefixed 20 bytes
AddressCoder_encode(c, w, value) ==
    IF value.k # "address" \/ Len(value.x) # 20 THEN Coder_throwError(w, "invalid address")
    ELSE Writer_writeValue(w, toBigNumber(FALSE, value.x))

\* AddressCoder.decode: getAddress(hexZeroPad(reader.readValue().toHexString(), 20))
AddressCoder_decode(c, r) ==
    The({ IF ~rv.ok THEN rv
          ELSE IF Len(rv.v.mag) > 20
          THEN [ok |-> FALSE, err |-> makeError("value out of range", INVALID_ARGUMENT), r |-> rv.r]
          ELSE [ok |-> TRUE, v |-> VAddress(PadLeft(rv.v.mag, 20)), r |-> rv.r] :
          rv \in {Reader_readValue(r)} })

\* BooleanCoder.encode: writer.writeValue(value ? 1 : 0)
BooleanCoder_encode(c, w, value) ==
    Writer_writeValue(w, BigNumber_fromNumber(IF value.k = "bool" /\ value.b THEN 1 ELSE 0))

\* BooleanCoder.decode: !reader.readValue().isZero()
BooleanCoder_decode(c, r) ==
    The({ IF ~rv.ok THEN rv ELSE [ok |-> TRUE, v |-> VBool(~isZero(rv.v)), r |-> rv.r] :
          rv \in {Reader_readValue(r)} })

\* DynamicBytesCoder.encode on the bytes arrayify(value)
DynamicBytesCoder_encode(c, w, bytes) ==
    The({ IF ~w1.ok THEN w1 ELSE [ok |-> TRUE, w |-> Writer_writeBytes(w1.w, bytes)] :
          w1 \in {Writer_writeValue(w, BigNumber_fromNumber(Len(bytes)))} })

\* DynamicBytesCoder.decode: reader.readBytes(reader.readValue().toNumber(), true)
DynamicBytesCoder_decode(c, r) ==
    The({ IF ~rv.ok THEN rv
          ELSE IF toNumberFaults(rv.v)
          THEN [ok |-> FALSE, err |-> makeError("overflow", NUMERIC_FAULT), r |-> rv.r]
          ELSE Reader_readBytes(rv.r, toNumber(rv.v), TRUE) :
          rv \in {Reader_readValue(r)} })

\* StringCoder.encode: super.encode(writer, toUtf8Bytes(value))
StringCoder_encode(c, w, value) ==
    IF value.k # "string" THEN Coder_throwError(w, "invalid string")
    ELSE The({ IF ~b.ok THEN [ok |-> FALSE, w |-> w, err |-> b.err]
               ELSE DynamicBytesCoder_encode(c, w, b.v) : b \in {toUtf8Bytes(value.x)} })

\* StringCoder.decode: toUtf8String(super.decode(reader))
StringCoder_decode(c, r) ==
    The({ IF ~b.ok THEN b
          ELSE The({ IF str.ok THEN [ok |-> TRUE, v |-> VString(str.v), r |-> b.r]
                     ELSE [ok |-> FALSE, err |-> str.err, r |-> b.r] : str \in {toUtf8String(b.v)} }) :
          b \in {DynamicBytesCoder_decode(c, r)} })

\* BytesCoder.encode (inherited): arrayify(value)
BytesCoder_encode(c, w, value) ==
    IF value.k # "hex" THEN Coder_throwError(w, "invalid arrayify value")
    ELSE DynamicBytesCoder_encode(c, w, value.x)

\* BytesCoder.decode: hexlify(super.decode(reader))
BytesCoder_decode(c, r) ==
    The({ IF ~b.ok THEN b ELSE [ok |-> TRUE, v |-> VHex(b.v), r |-> b.r] :
          b \in {DynamicBytesCoder_decode(c, r)} })

\* FixedBytesCoder.encode
FixedBytesCoder_encode(c, w, value) ==
    IF value.k # "hex" THEN Coder_throwError(w, "invalid arrayify value")
    ELSE IF Len(value.x) # c.size THEN Coder_throwError(w, "incorrect data length")
    ELSE [ok |-> TRUE, w |-> Writer_writeBytes(w, value.x)]

\* FixedBytesCoder.decode: hexlify(reader.readBytes(this.size))
FixedBytesCoder_decode(c, r) ==
    The({ IF ~b.ok THEN b ELSE [ok |-> TRUE, v |-> VHex(b.v), r |-> b.r] :
          b \in {Reader_readBytes(r, c.size, FALSE)} })

\* NullCoder.encode: only null is accepted; writer.writeBytes([])
NullCoder_encode(c, w, value) ==
    IF value.k # "null" THEN Coder_throwError(w, "not null")
    ELSE [ok |-> TRUE, w |-> Writer_writeBytes(w, <<>>)]

\* NullCoder.decode: reader.readBytes(0); null
NullCoder_decode(c, r) ==
    The({ IF ~b.ok THEN b ELSE [ok |-> TRUE, v |-> VNull, r |-> b.r] :
          b \in {Reader_readBytes(r, 0, FALSE)} })

\* ------------------------------------------------------------------------
\* pack, unpack and the coders built on them
\* ------------------------------------------------------------------------
\* an array that is dynamic only by its own length
ArrayCoderMut(coder, length, localName) ==
    MkCoder("array", 0, FALSE, length, <<coder>>, localName, length = -1)

\* ArrayCoder.constructor: dynamic = length === -1 || coder.dynamic
ArrayCoder(coder, length, localName) ==
    MkCoder("array", 0, FALSE, length, <<coder>>, localName, length = -1 \/ coder.dynamic)

\* TupleCoder.constructor: dynamic when one of the coders is
TupleCoder(coders, localName) ==
    MkCoder("tuple", 0, FALSE, 0, coders, localName, \E i \in 1..Len(coders) : coders[i].dynamic)

\* AnonymousCoder: the wrapped coder with localName undefined
AnonymousCoder(coder) == [coder EXCEPT !.localName = ""]

\* pack: the word back-filled for a dynamic value, updateFunc(baseOffset + dynamicOffset)
pack_offsetMut(baseOffset, dynamicOffset) == dynamicOffset

pack_offset(baseOffset, dynamicOffset) == baseOffset + dynamicOffset

\* unpack: "Cannot recover from this", error.code === BUFFER_OVERRUN is thrown again
unpack_rethrowsMut(error) == FALSE

unpack_rethrows(error) == error.code = BUFFER_OVERRUN

\* a decode outcome with the history flag ovr: a buffer-overrun error was
\* raised somewhere while it was computed
WithOvr(res, flag) ==
    IF res.ok THEN [ok |-> TRUE, v |-> res.v, r |-> res.r, ovr |-> flag]
    ELSE [ok |-> FALSE, err |-> res.err, r |-> res.r, ovr |-> flag]

IsOverrun(res) == ~res.ok /\ res.err.code = BUFFER_OVERRUN

VUndefined == [k |-> "undefined"]

\* the error captured for a field: value = error; value.name = coder.localName
FieldError(error, coder) ==
    [k |-> "error", code |-> error.code, reason |-> error.reason, name |-> coder.localName]

\* names an Array already answers to, for which values[name] != null
ArrayMembers == {"push", "map", "constructor"}

RECURSIVE Coder_encode(_, _, _)
RECURSIVE pack(_, _, _)
RECURSIVE packEach(_, _, _, _, _, _)
RECURSIVE Coder_decode(_, _)
RECURSIVE unpack(_, _)
RECURSIVE unpackEach(_, _, _, _, _, _)

\* pack, coders.forEach: staticWriter sw, dynamicWriter dw and updateFuncs ups
\* (each the reserved chunk of sw and the dynamicOffset it closes over)
packEach(coders, arrayValues, index, sw, dw, ups) ==
    IF index > Len(coders) THEN [ok |-> TRUE, sw |-> sw, dw |-> dw, ups |-> ups]
    ELSE LET coder == coders[index]
             value == arrayValues[index]
             dynamicOffset == dw.len
         IN  The({ IF ~e.ok THEN e
                   ELSE IF coder.dynamic
                   THEN packEach(coders, arrayValues, index + 1, Writer_writeUpdatableValue(sw), e.w,
                                 Append(ups, [offset |-> Len(sw.data), dynamicOffset |-> dynamicOffset]))
                   ELSE packEach(coders, arrayValues, index + 1, e.w, dw, ups) :
                   e \in {Coder_encode(coder, IF coder.dynamic THEN dw ELSE sw, value)} })

\* updateFuncs.forEach(func => func(staticWriter.length))
RECURSIVE packBackfill(_, _, _)
packBackfill(sw, ups, baseOffset) ==
    IF ups = <<>> THEN [ok |-> TRUE, w |-> sw]
    ELSE The({ IF ~u.ok THEN u ELSE packBackfill(u.w, Tail(ups), baseOffset) :
               u \in {Writer_update(sw, Head(ups).offset,
                                    BigNumber_fromNumber(pack_offset(baseOffset, Head(ups).dynamicOffset)))} })

\* pack with the values given as an array
pack(writer, coders, values) ==
    IF values.k # "list"
    THEN [ok |-> FALSE, w |-> writer, err |-> makeError("invalid tuple value", INVALID_ARGUMENT)]
    ELSE IF Len(coders) # Len(values.x)
    THEN [ok |-> FALSE, w |-> writer, err |-> makeError("types/value length mismatch", INVALID_ARGUMENT)]
    ELSE The({ IF ~e.ok THEN [ok |-> FALSE, w |-> writer, err |-> e.err]
               ELSE The({ IF ~b.ok THEN [ok |-> FALSE, w |-> writer, err |-> b.err]
                          ELSE [ok |-> TRUE, w |-> Writer_appendWriter(Writer_appendWriter(writer, b.w), e.dw)] :
                          b \in {packBackfill(e.sw, e.ups, e.sw.len)} }) :
               e \in {packEach(coders, values.x, 1, NewWriter, NewWriter, <<>>)} })

\* ArrayCoder.encode
ArrayCoder_encode(c, w, value) ==
    IF value.k # "list" THEN Coder_throwError(w, "expected array value")
    ELSE LET n == Len(value.x)
             count == IF c.length = -1 THEN n ELSE c.length
         IN  The({ IF ~w1.ok THEN w1
                   ELSE IF n < count
                   THEN [ok |-> FALSE, w |-> w1.w, err |-> makeError("missing argument", MISSING_ARGUMENT)]
                   ELSE IF n > count
                   THEN [ok |-> FALSE, w |-> w1.w, err |-> makeError("too many arguments", UNEXPECTED_ARGUMENT)]
                   ELSE pack(w1.w, [i \in 1..n |-> c.coders[1]], value) :
                   w1 \in {IF c.length = -1 THEN Writer_writeValue(w, BigNumber_fromNumber(n))
                           ELSE [ok |-> TRUE, w |-> w]} })

Coder_encode(c, w, value) ==
    CASE c.kind = "address" -> AddressCoder_encode(c, w, value)
      [] c.kind = "bool" -> BooleanCoder_encode(c, w, value)
      [] c.kind = "string" -> StringCoder_encode(c, w, value)
      [] c.kind = "bytes" -> BytesCoder_encode(c, w, value)
      [] c.kind = "fixedbytes" -> FixedBytesCoder_encode(c, w, value)
      [] c.kind = "null" -> NullCoder_encode(c, w, value)
      [] c.kind = "number" ->
            IF value.k # "num" THEN Coder_throwError(w, "invalid BigNumber value")
            ELSE NumberCoder_encode(c, w, value)
      [] c.kind = "array" -> ArrayCoder_encode(c, w, value)
      [] c.kind = "tuple" -> pack(w, c.coders, value)

\* unpack, the number of coders named name
uniqueNames(coders, name) == Cardinality({i \in 1..Len(coders) : coders[i].localName = name})

\* unpack, "Add any named parameters": the properties set on values, in
\* coder order; values[index] is undefined past the end of values
RECURSIVE unpackNamed(_, _, _)
unpackNamed(coders, values, index) ==
    IF index > Len(coders) THEN <<>>
    ELSE LET name0 == coders[index].localName
             name == IF name0 = "length" THEN "_length" ELSE name0
             value == IF index <= Len(values) THEN values[index] ELSE VUndefined
             rest == unpackNamed(coders, values, index + 1)
         IN  IF name0 = "" \/ uniqueNames(coders, name0) # 1 THEN rest
             ELSE IF name \in ArrayMembers THEN rest
             ELSE <<[name |-> name, v |-> value]>> \o rest

\* unpack: if (value != undefined) values.push(value); a decoded null is
\* not pushed
unpack_push(values, value) == IF value.k = "null" THEN values ELSE Append(values, value)

\* unpack, coders.forEach: the values pushed so far.  For a dynamic coder the
\* offset word is read from reader and the value is decoded at baseReader +
\* offset inside the try; a static coder is decoded from reader itself.
unpackEach(coders, index, reader, baseReader, values, ovr) ==
    IF index > Len(coders)
    THEN [ok |-> TRUE, v |-> values, r |-> reader, ovr |-> ovr]
    ELSE LET coder == coders[index] IN
         The({ IF ~offset.ok THEN [ok |-> FALSE, err |-> offset.err, r |-> reader, ovr |-> TRUE]
               ELSE IF coder.dynamic /\ toNumberFaults(offset.v)
               THEN [ok |-> FALSE, err |-> makeError("overflow", NUMERIC_FAULT), r |-> offset.r, ovr |-> ovr]
               ELSE The({ IF ~d.ok /\ unpack_rethrows(d.err)
                          THEN [ok |-> FALSE, err |-> d.err, ovr |-> ovr \/ d.ovr,
                                r |-> IF coder.dynamic THEN offset.r ELSE d.r]
                          ELSE unpackEach(coders, index + 1, IF coder.dynamic THEN offset.r ELSE d.r, baseReader,
                                          unpack_push(values, IF d.ok THEN d.v ELSE FieldError(d.err, coder)),
                                          ovr \/ d.ovr) :
                          d \in {Coder_decode(coder, IF coder.dynamic
                                                     THEN Reader_subReader(baseReader, toNumber(offset.v))
                                                     ELSE reader)} }) :
               offset \in {IF coder.dynamic THEN Reader_readValue(reader) ELSE [ok |-> TRUE, r |-> reader]} })

\* unpack: the Result is the values with the named properties; an element
\* or property that is an error is a getter that throws it
unpack(reader, coders) ==
    The({ IF ~e.ok THEN e
          ELSE [ok |-> TRUE, r |-> e.r, ovr |-> e.ovr,
                v |-> [k |-> "result", x |-> e.v, named |-> unpackNamed(coders, e.v, 1)]] :
          e \in {unpackEach(coders, 1, reader, Reader_subReader(reader, 0), <<>>, FALSE)} })

\* the check compared with the bytes that follow the count word
insufficientDataMut(count, reader) == count * 32 > Len(reader.data) - wordSize

\* ArrayCoder.decode: count * 32 > reader._data.length, the whole data of
\* the reader the array is decoded from, the count word included
insufficientData(count, reader) == count * 32 > Len(reader.data)

\* ArrayCoder.decode
ArrayCoder_decode(c, reader) ==
    The({ IF ~rv.ok THEN WithOvr(rv, TRUE)
          ELSE IF c.length = -1 /\ toNumberFaults(rv.v)
          THEN [ok |-> FALSE, err |-> makeError("overflow", NUMERIC_FAULT), r |-> rv.r, ovr |-> FALSE]
          ELSE The({ IF c.length = -1 /\ insufficientData(count, reader)
                     THEN [ok |-> FALSE, err |-> makeError("insufficient data length", BUFFER_OVERRUN),
                           r |-> rv.r, ovr |-> TRUE]
                     ELSE unpack(rv.r, [i \in 1..count |-> AnonymousCoder(c.coders[1])]) :
                     count \in {IF c.length = -1 THEN toNumber(rv.v) ELSE c.length} }) :
          rv \in {IF c.length = -1 THEN Reader_readValue(reader) ELSE [ok |-> TRUE, r |-> reader]} })

Coder_decode(c, r) ==
    CASE c.kind = "array" -> ArrayCoder_decode(c, r)
      [] c.kind = "tuple" -> unpack(r, c.coders)
      [] OTHER ->
            The({ WithOvr(res, IsOverrun(res)) :
                  res \in {CASE c.kind = "address" -> AddressCoder_decode(c, r)
                             [] c.kind = "bool" -> BooleanCoder_decode(c, r)
                             [] c.kind = "string" -> StringCoder_decode(c, r)
                             [] c.kind = "bytes" -> BytesCoder_decode(c, r)
                             [] c.kind = "fixedbytes" -> FixedBytesCoder_decode(c, r)
                             [] c.kind = "null" -> NullCoder_decode(c, r)
                             [] c.kind = "number" -> NumberCoder_decode(c, r)} })

\* ------------------------------------------------------------------------
\* ParamType and AbiCoder
\* ------------------------------------------------------------------------
\* A ParamType by its fields.  baseType is "uint", "int" or "bytesN" with
\* the digits of the type in n, or address, bool, string, bytes, array,
\* tuple or "" (the empty type); components and arrayChildren are <<>>
\* when null.
ParamType(baseType, n, name, components, arrayLength, arrayChildren) ==
    [baseType |-> baseType, n |-> n, name |-> name, components |-> components,
     arrayLength |-> arrayLength, arrayChildren |-> arrayChildren]

PLeaf(baseType, n, name) == ParamType(baseType, n, name, <<>>, 0, <<>>)
PArray(child, arrayLength, name) == ParamType("array", 0, name, child.components, arrayLength, <<child>>)
PTuple(components, name) == ParamType("tuple", 0, name, components, 0, <<>>)

RECURSIVE AbiCoder_getCoder(_)
RECURSIVE AbiCoder_getCoders(_)

\* AbiCoder._getCoder
AbiCoder_getCoder(param) ==
    CASE param.baseType = "address" -> Ok(AddressCoder(param.name))
      [] param.baseType = "bool" -> Ok(BooleanCoder(param.name))
      [] param.baseType = "string" -> Ok(StringCoder(param.name))
      [] param.baseType = "bytes" -> Ok(BytesCoder(param.name))
      [] param.baseType = "array" ->
            The({ IF child.ok THEN Ok(ArrayCoder(child.v, param.arrayLength, param.name)) ELSE child :
                  child \in {AbiCoder_getCoder(param.arrayChildren[1])} })
      [] param.baseType = "tuple" ->
            The({ IF cs.ok THEN Ok(TupleCoder(cs.v, param.name)) ELSE cs :
                  cs \in {AbiCoder_getCoders(param.components)} })
      [] param.baseType = "" -> Ok(NullCoder(param.name))
      [] param.baseType \in {"uint", "int"} ->
            IF param.n = 0 \/ param.n > 256 \/ param.n % 8 # 0
            THEN Err(makeError("invalid bit length", INVALID_ARGUMENT))
            ELSE Ok(NumberCoder(param.n \div 8, param.baseType = "int", param.name))
      [] param.baseType = "bytesN" ->
            IF param.n = 0 \/ param.n > 32
            THEN Err(makeError("invalid bytes length", INVALID_ARGUMENT))
            ELSE Ok(FixedBytesCoder(param.n, param.name))
      [] OTHER -> Err(makeError("invalid type", INVALID_ARGUMENT))

\* types.map(type => this._getCoder(ParamType.from(type)))
AbiCoder_getCoders(params) ==
    IF params = <<>> THEN Ok(<<>>)
    ELSE The({ IF ~c.ok THEN c
               ELSE The({ IF ~rest.ok THEN rest ELSE Ok(<<c.v>> \o rest.v) :
                          rest \in {AbiCoder_getCoders(Tail(params))} }) :
               c \in {AbiCoder_getCoder(Head(params))} })

\* AbiCoder.encode: the bytes of writer.data, or the error thrown
AbiCoder_encode(types, values) ==
    IF Len(types) # Len(values)
    THEN Err(makeError("types/values length mismatch", INVALID_ARGUMENT))
    ELSE The({ IF ~coders.ok THEN coders
               ELSE The({ IF e.ok THEN Ok(Writer_data(e.w)) ELSE Err(e.err) :
                          e \in {Coder_encode(TupleCoder(coders.v, "_"), NewWriter, VList(values))} }) :
               coders \in {AbiCoder_getCoders(types)} })

\* AbiCoder.decode
AbiCoder_decode(types, data, loose) ==
    The({ IF ~coders.ok THEN [ok |-> FALSE, err |-> coders.err, ovr |-> FALSE]
          ELSE The({ IF d.ok THEN [ok |-> TRUE, v |-> d.v, ovr |-> d.ovr]
                     ELSE [ok |-> FALSE, err |-> d.err, ovr |-> d.ovr] :
                     d \in {Coder_decode(TupleCoder(coders.v, "_"), NewReader(data, loose))} }) :
          coders \in {AbiCoder_getCoders(types)} })

\* ------------------------------------------------------------------------
\* Strings read character by character.  A text is the sequence of the
\* characters of a JavaScript string; '' is <<>>.
\* ------------------------------------------------------------------------
DigitChars == <<"0", "1", "2", "3", "4", "5", "6", "7", "8", "9">>
Digits == {DigitChars[i] : i \in 1..10}
Letters ==
    { "a", "b", "c", "d", "e", "f", "g", "h", "i", "j", "k", "l", "m", "n", "o", "p", "q", "r", "s",
      "t", "u", "v", "w", "x", "y", "z", "A", "B", "C", "D", "E", "F", "G", "H", "I", "J", "K", "L",
      "M", "N", "O", "P", "Q", "R", "S", "T", "U", "V", "W", "X", "Y", "Z" }

\* String.prototype.indexOf and lastIndexOf of one character, 1-based, 0 for none
IndexOf(text, c) ==
    IF \E i \in 1..Len(text) : text[i] = c
    THEN CHOOSE i \in 1..Len(text) : text[i] = c /\ \A j \in 1..(i - 1) : text[j] # c
    ELSE 0

LastIndexOf(text, c) ==
    IF \E i \in 1..Len(text) : text[i] = c
    THEN CHOOSE i \in 1..Len(text) : text[i] = c /\ \A j \in (i + 1)..Len(text) : text[j] # c
    ELSE 0

\* String.prototype.trim
trim(text) ==
    LET kept == {i \in 1..Len(text) : text[i] # " "}
    IN  IF kept = {} THEN <<>>
        ELSE SubSeq(text, CHOOSE i \in kept : \A j \in kept : i <= j,
                          CHOOSE i \in kept : \A j \in kept : i >= j)

StartsWith(text, prefix) == Len(text) >= Len(prefix) /\ SubSeq(text, 1, Len(prefix)) = prefix

\* String.prototype.split(separator), separator not empty: the text before
\* the first separator, then the split of what follows it
RECURSIVE split(_, _)
split(text, separator) ==
    LET found == {i \in 1..(Len(text) - Len(separator) + 1) :
                     SubSeq(text, i, i + Len(separator) - 1) = separator}
        first == CHOOSE i \in found : \A j \in found : i <= j
    IN  IF found = {} THEN <<text>>
        ELSE <<SubSeq(text, 1, first - 1)>>
                \o split(SubSeq(text, first + Len(separator), Len(text)), separator)

\* Array.prototype.join
RECURSIVE join(_, _)
join(texts, separator) ==
    IF texts = <<>> THEN <<>>
    ELSE IF Len(texts) = 1 THEN texts[1]
    ELSE texts[1] \o separator \o join(Tail(texts), separator)

\* parseInt of a run of digits, and String(n) of a number n >= 0
RECURSIVE parseDigits(_)
parseDigits(text) ==
    IF text = <<>> THEN 0
    ELSE parseDigits(SubSeq(text, 1, Len(text) - 1)) * 10
            + (CHOOSE d \in 0..9 : DigitChars[d + 1] = text[Len(text)])

RECURSIVE String(_)
String(n) == IF n < 10 THEN <<DigitChars[n + 1]>> ELSE String(n \div 10) \o <<DigitChars[(n % 10) + 1]>>

\* logger.throwArgumentError(message, name, value)
throwArgumentError(message) == Err(makeError(message, INVALID_ARGUMENT))

\* reading a property of undefined
TypeErrorOfUndefined == [k |-> "error", code |-> TYPE_ERROR, reason |-> "Cannot read properties of undefined"]

\* the words the parser knows, as texts
T_uint == <<"u", "i", "n", "t">>
T_int == <<"i", "n", "t">>
T_uint256 == <<"u", "i", "n", "t", "2", "5", "6">>
T_int256 == <<"i", "n", "t", "2", "5", "6">>
T_bytes == <<"b", "y", "t", "e", "s">>
T_string == <<"s", "t", "r", "i", "n", "g">>
T_address == <<"a", "d", "d", "r", "e", "s", "s">>
T_tuple == <<"t", "u", "p", "l", "e">>
T_calldata == <<"c", "a", "l", "l", "d", "a", "t", "a">>
T_memory == <<"m", "e", "m", "o", "r", "y">>
T_storage == <<"s", "t", "o", "r", "a", "g", "e">>
T_payable == <<"p", "a", "y", "a", "b", "l", "e">>
T_indexed == <<"i", "n", "d", "e", "x", "e", "d">>

\* ------------------------------------------------------------------------
\* parseParamType and ParamType.fromString
\* ------------------------------------------------------------------------
\* verifyType: uint and int are spelled out
verifyType(type) ==
    IF StartsWith(type, T_uint) /\ (Len(type) = 4 \/ type[5] \notin (Digits \ {"0"}))
    THEN T_uint256 \o SubSeq(type, 5, Len(type))
    ELSE IF StartsWith(type, T_int) /\ (Len(type) = 3 \/ type[4] \notin (Digits \ {"0"}))
    THEN T_int256 \o SubSeq(type, 4, Len(type))
    ELSE type

ModifiersBytes == {T_calldata, T_memory, T_storage}
ModifiersNest == {T_calldata, T_memory}

\* checkModifier: true, false, or the invalid-modifier error
checkModifier(type, name) ==
    IF type \in {T_bytes, T_string} /\ name \in ModifiersBytes THEN Ok(TRUE)
    ELSE IF type = T_address /\ name = T_payable THEN Ok(TRUE)
    ELSE IF type \notin {T_bytes, T_string, T_address} /\ (IndexOf(type, "[") > 0 \/ type = T_tuple)
            /\ name \in ModifiersNest THEN Ok(TRUE)
    ELSE IF name \in ModifiersBytes \/ name = T_payable THEN throwArgumentError("invalid modifier")
    ELSE Ok(FALSE)

\* newNode(parent).  A ParseNode with its state flags (a deleted or unset
\* flag is FALSE); the parent link is the stack the node sits on.  indexed
\* is "undefined", "false" or "true".
newNode(allowIndexed) ==
    [type |-> <<>>, name |-> <<>>, indexed |-> IF allowIndexed THEN "false" ELSE "undefined",
     components |-> <<>>, hasComponents |-> FALSE,
     allowType |-> TRUE, allowName |-> FALSE, allowParams |-> FALSE, allowArray |-> FALSE,
     readArray |-> FALSE]

\* the parent node of parseParamType: indexed is not set on it
rootNode == [newNode(FALSE) EXCEPT !.indexed = "undefined"]

\* what ')' , ',' and the end of the text do to the node being left:
\* "indexed" and modifiers are taken off the name, the type is verified
closeNode(node, allowIndexed, atEnd) ==
    IF node.name = T_indexed
    THEN IF ~allowIndexed \/ (atEnd /\ node.indexed = "true")
         THEN throwArgumentError("unexpected character")
         ELSE Ok([node EXCEPT !.indexed = "true", !.name = <<>>, !.type = verifyType(node.type)])
    ELSE The({ IF ~m.ok THEN m
               ELSE Ok([node EXCEPT !.name = IF m.v THEN <<>> ELSE @, !.type = verifyType(node.type)]) :
               m \in {checkModifier(node.type, node.name)} })

\* case ' '
spaceNode(node, allowIndexed) ==
    The({ IF n1.allowName /\ n1.name # <<>>
          THEN IF n1.name = T_indexed
               THEN IF ~allowIndexed \/ n1.indexed = "true"
                    THEN throwArgumentError("unexpected character")
                    ELSE Ok([n1 EXCEPT !.indexed = "true", !.name = <<>>])
               ELSE The({ IF ~m.ok THEN m
                          ELSE IF m.v THEN Ok([n1 EXCEPT !.name = <<>>])
                          ELSE Ok([n1 EXCEPT !.allowName = FALSE]) :
                          m \in {checkModifier(n1.type, n1.name)} })
          ELSE Ok(n1) :
          n1 \in {IF node.allowType /\ node.type # <<>>
                  THEN [node EXCEPT !.type = verifyType(node.type), !.allowType = FALSE,
                                    !.allowName = TRUE, !.allowParams = TRUE]
                  ELSE node} })

\* one character of parseParamType.  nodes is the chain from the parent
\* node to the current node (last); a child joins its parent's components
\* here when it is left, which is when the code stops reaching it.
parseChar(nodes, c, allowIndexed) ==
    LET depth == Len(nodes)
        node == nodes[depth]
    IN  CASE c = "(" ->
                IF ~(node.allowType /\ node.type = <<>>) /\ ~node.allowParams
                THEN throwArgumentError("unexpected character")
                ELSE LET type == IF node.allowType /\ node.type = <<>> THEN T_tuple ELSE node.type
                     IN  Ok([nodes EXCEPT ![depth] = [node EXCEPT !.type = verifyType(type),
                                                                   !.allowType = FALSE,
                                                                   !.components = <<>>,
                                                                   !.hasComponents = TRUE]]
                                \o <<newNode(allowIndexed)>>)
          [] c \in {")", ","} ->
                The({ IF ~child.ok THEN child
                      ELSE IF depth = 1
                      THEN IF c = ")" THEN throwArgumentError("unexpected character")
                           ELSE Err(TypeErrorOfUndefined)
                      ELSE IF c = ")"
                      THEN Ok([SubSeq(nodes, 1, depth - 1) EXCEPT
                                  ![depth - 1] = [@ EXCEPT !.components = Append(@, child.v),
                                                           !.allowParams = FALSE, !.allowName = TRUE,
                                                           !.allowArray = TRUE]])
                      ELSE Ok([SubSeq(nodes, 1, depth - 1) EXCEPT
                                  ![depth - 1] = [@ EXCEPT !.components = Append(@, child.v)]]
                                 \o <<newNode(allowIndexed)>>) :
                      child \in {closeNode(node, allowIndexed, FALSE)} })
          [] c = " " ->
                The({ IF ~spaced.ok THEN spaced ELSE Ok([nodes EXCEPT ![depth] = spaced.v]) :
                      spaced \in {spaceNode(node, allowIndexed)} })
          [] c = "[" ->
                IF ~node.allowArray THEN throwArgumentError("unexpected character")
                ELSE Ok([nodes EXCEPT ![depth] = [node EXCEPT !.type = Append(@, c), !.allowArray = FALSE,
                                                               !.allowName = FALSE, !.readArray = TRUE]])
          [] c = "]" ->
                IF ~node.readArray THEN throwArgumentError("unexpected character")
                ELSE Ok([nodes EXCEPT ![depth] = [node EXCEPT !.type = Append(@, c), !.readArray = FALSE,
                                                               !.allowArray = TRUE, !.allowName = TRUE]])
          [] OTHER ->
                IF node.allowType
                THEN Ok([nodes EXCEPT ![depth] = [node EXCEPT !.type = Append(@, c), !.allowParams = TRUE,
                                                               !.allowArray = TRUE]])
                ELSE IF node.allowName
                THEN Ok([nodes EXCEPT ![depth] = [node EXCEPT !.name = Append(@, c), !.allowArray = FALSE]])
                ELSE IF node.readArray
                THEN Ok([nodes EXCEPT ![depth] = [node EXCEPT !.type = Append(@, c)]])
                ELSE throwArgumentError("unexpected character")

\* throwError(i) of parseParamType: `unexpected character at position ${i}`
throwError(i) ==
    Err([k |-> "error", code |-> INVALID_ARGUMENT, reason |-> "unexpected character at position",
         position |-> i])

\* the throwError calls of the loop body and of the end of parseParamType
\* get the position they are made at
throwErrorAt(res, i) ==
    IF ~res.ok /\ res.err = makeError("unexpected character", INVALID_ARGUMENT) THEN throwError(i) ELSE res

\* the loop of parseParamType over the characters of param from i on;
\* parsed is the outcome of the characters before i
RECURSIVE parseChars(_, _, _, _)
parseChars(parsed, param, i, allowIndexed) ==
    IF ~parsed.ok \/ i > Len(param) THEN parsed
    ELSE parseChars(throwErrorAt(parseChar(parsed.v, param[i], allowIndexed), i - 1), param, i + 1,
                    allowIndexed)

\* parseParamType(param, allowIndexed): the parent ParseNode, or the error
parseParamType(param, allowIndexed) ==
    The({ IF ~parsed.ok THEN parsed
          ELSE IF Len(parsed.v) > 1 THEN throwArgumentError("unexpected eof")
          ELSE throwErrorAt(closeNode(parsed.v[1], allowIndexed, TRUE), Len(param) - 7) :
          parsed \in {parseChars(Ok(<<rootNode>>), param, 1, allowIndexed)} })

\* paramTypeArray, /^(.*)\[([0-9]*)\]$/
paramTypeArray(type) ==
    LET open == LastIndexOf(type, "[")
    IN  /\ type # <<>> /\ type[Len(type)] = "]"
        /\ open > 0
        /\ \A i \in (open + 1)..(Len(type) - 1) : type[i] \in Digits

\* parseInt(match[2] || '-1')
arrayLengthOfMut(digits) == IF digits = <<>> THEN 0 ELSE parseDigits(digits)

arrayLengthOf(digits) == IF digits = <<>> THEN -1 ELSE parseDigits(digits)

\* ParamType.fromObject and the constructor, on a ParseNode or a JSON
\* object with type, name, indexed, components and hasComponents
RECURSIVE ParamType_fromObject(_)
RECURSIVE ParamType_fromObjects(_)
RECURSIVE ParamType_new(_, _, _, _, _)

ParamType_new(name, type, indexed, components, hasComponents) ==
    IF paramTypeArray(type)
    THEN LET open == LastIndexOf(type, "[")
             digits == SubSeq(type, open + 1, Len(type) - 1)
         IN  [name |-> name, type |-> type, indexed |-> indexed, baseType |-> <<"a", "r", "r", "a", "y">>,
              components |-> components, hasComponents |-> hasComponents,
              arrayLength |-> arrayLengthOf(digits),
              arrayChildren |-> <<ParamType_new(<<>>, verifyType(SubSeq(type, 1, open - 1)), "undefined",
                                                components, hasComponents)>>]
    ELSE [name |-> name, type |-> type, indexed |-> indexed,
          baseType |-> IF hasComponents THEN T_tuple ELSE type,
          components |-> components, hasComponents |-> hasComponents,
          arrayLength |-> 0, arrayChildren |-> <<>>]

ParamType_fromObject(value) ==
    IF "baseType" \in DOMAIN value THEN value
    ELSE ParamType_new(value.name, verifyType(value.type), value.indexed,
                  IF value.hasComponents THEN ParamType_fromObjects(value.components) ELSE <<>>,
                  value.hasComponents)

ParamType_fromObjects(values) ==
    IF values = <<>> THEN <<>>
    ELSE <<ParamType_fromObject(Head(values))>> \o ParamType_fromObjects(Tail(values))

\* ParamType.fromString
ParamType_fromString(value, allowIndexed) ==
    The({ IF node.ok THEN Ok(ParamType_fromObject(node.v)) ELSE node :
          node \in {parseParamType(value, allowIndexed)} })

\* format of a tuple in sighash format: this.type is left out, the
\* components are formatted in the same format and joined with ','
sighashTupleMut(components) == T_tuple \o <<"(">> \o join(components, <<",">>) \o <<")">>

sighashTuple(components) == <<"(">> \o join(components, <<",">>) \o <<")">>

\* ParamType.format(FormatTypes.sighash): the text, or the TypeError of
\* this.components.map when a tuple has no components
RECURSIVE ParamType_format(_)
RECURSIVE ParamType_formats(_)
ParamType_format(p) ==
    IF p.baseType = <<"a", "r", "r", "a", "y">>
    THEN The({ IF ~child.ok THEN child
               ELSE Ok(child.v \o <<"[">> \o (IF p.arrayLength < 0 THEN <<>> ELSE String(p.arrayLength))
                               \o <<"]">>) :
               child \in {ParamType_format(p.arrayChildren[1])} })
    ELSE IF p.baseType = T_tuple
    THEN IF ~p.hasComponents THEN Err(TypeErrorOfUndefined)
         ELSE The({ IF ~comps.ok THEN comps ELSE Ok(sighashTuple(comps.v)) :
                    comps \in {ParamType_formats(p.components)} })
    ELSE Ok(p.type)

\* inputs.map(input => input.format(format))
ParamType_formats(ps) ==
    IF ps = <<>> THEN Ok(<<>>)
    ELSE The({ IF ~first.ok THEN first
               ELSE The({ IF ~rest.ok THEN rest ELSE Ok(<<first.v>> \o rest.v) :
                          rest \in {ParamType_formats(Tail(ps))} }) :
               first \in {ParamType_format(Head(ps))} })

\* ------------------------------------------------------------------------
\* Fragments
\* ------------------------------------------------------------------------
\* verifyIdentifier, /^[a-zA-Z$_][a-zA-Z0-9$_]*$/
regexIdentifier(value) ==
    /\ value # <<>>
    /\ value[1] \in Letters \cup {"$", "_"}
    /\ \A i \in 2..Len(value) : value[i] \in Letters \cup Digits \cup {"$", "_"}

\* regexParen, /^([^)(]*)\((.*)\)([^)(]*)$/: the three groups, or no match
regexParen(value) ==
    LET open == IndexOf(value, "(")
        close == LastIndexOf(value, ")")
    IN  IF open > 0 /\ close > open
           /\ (\A i \in 1..(open - 1) : value[i] # ")")
           /\ (\A i \in (close + 1)..Len(value) : value[i] # "(")
        THEN Ok(<<SubSeq(value, 1, open - 1), SubSeq(value, open + 1, close - 1),
                  SubSeq(value, close + 1, Len(value))>>)
        ELSE Err(None)

\* splitNesting: depth after the character at i, the commas met at depth
\* 0, and the texts between them (the last one is kept when not empty)
nestingDepth(value, i) ==
    Cardinality({j \in 1..i : value[j] = "("}) - Cardinality({j \in 1..i : value[j] = ")"})

splitNestingAt(value) == {i \in 1..Len(value) : value[i] = "," /\ nestingDepth(value, i) = 0}

RECURSIVE splitNestingFrom(_, _)
splitNestingFrom(value, start) ==
    LET commas == {i \in splitNestingAt(value) : i >= start}
        next == CHOOSE i \in commas : \A j \in commas : i <= j
    IN  IF commas = {}
        THEN IF start <= Len(value) THEN <<SubSeq(value, start, Len(value))>> ELSE <<>>
        ELSE <<SubSeq(value, start, next - 1)>> \o splitNestingFrom(value, next + 1)

splitNesting(value) ==
    The({ IF \E i \in 1..Len(trimmed) : nestingDepth(trimmed, i) < 0
          THEN throwArgumentError("unbalanced parenthesis")
          ELSE Ok(splitNestingFrom(trimmed, 1)) : trimmed \in {trim(value)} })

\* parseParams: splitNesting(value).map(param => ParamType.fromString(param, allowIndex))
RECURSIVE parseParamsEach(_, _)
parseParamsEach(params, allowIndex) ==
    IF params = <<>> THEN Ok(<<>>)
    ELSE The({ IF ~first.ok THEN first
               ELSE The({ IF ~rest.ok THEN rest ELSE Ok(<<first.v>> \o rest.v) :
                          rest \in {parseParamsEach(Tail(params), allowIndex)} }) :
               first \in {ParamType_fromString(Head(params), allowIndex)} })

parseParams(value, allowIndex) ==
    The({ IF ~params.ok THEN params ELSE parseParamsEach(params.v, allowIndex) :
          params \in {splitNesting(value)} })

T_ErrorString == <<"E", "r", "r", "o", "r", "(", "s", "t", "r", "i", "n", "g", ")">>
T_PanicUint256 == <<"P", "a", "n", "i", "c", "(", "u", "i", "n", "t", "2", "5", "6", ")">>
T_constant == <<"c", "o", "n", "s", "t", "a", "n", "t">>
T_nonpayable == <<"n", "o", "n", "p", "a", "y", "a", "b", "l", "e">>
T_pure == <<"p", "u", "r", "e">>
T_view == <<"v", "i", "e", "w">>
T_anonymous == <<"a", "n", "o", "n", "y", "m", "o", "u", "s">>
T_returns == <<" ", "r", "e", "t", "u", "r", "n", "s", " ">>

\* verifyState: "undefined" is a field that is null or absent
verifyState(value) ==
    IF value.stateMutability # "undefined"
    THEN LET constant == value.stateMutability \in {"view", "pure"}
             payable == value.stateMutability = "payable"
         IN  IF value.constant # "undefined" /\ (value.constant = "true") # constant
             THEN throwArgumentError("cannot have constant function with mutability")
             ELSE IF value.payable # "undefined" /\ (value.payable = "true") # payable
             THEN throwArgumentError("cannot have payable function with mutability")
             ELSE Ok([constant |-> constant, payable |-> payable, stateMutability |-> value.stateMutability])
    ELSE IF value.payable # "undefined"
    THEN LET payable == value.payable = "true"
             constant == value.constant = "true"
         IN  IF value.constant = "undefined" /\ ~payable /\ value.type # "constructor"
             THEN throwArgumentError("unable to determine stateMutability")
             ELSE IF payable /\ constant THEN throwArgumentError("cannot have constant payable function")
             ELSE Ok([constant |-> constant, payable |-> payable,
                      stateMutability |-> IF constant THEN "view"
                                          ELSE IF payable THEN "payable" ELSE "nonpayable"])
    ELSE IF value.constant # "undefined"
    THEN LET constant == value.constant = "true"
         IN  Ok([constant |-> constant, payable |-> ~constant,
                 stateMutability |-> IF constant THEN "view" ELSE "payable"])
    ELSE IF value.type # "constructor" THEN throwArgumentError("unable to determine stateMutability")
    ELSE Ok([constant |-> FALSE, payable |-> TRUE, stateMutability |-> "payable"])

\* parseModifiers: the words of value in turn
RECURSIVE parseModifiersEach(_, _)
parseModifiersEach(words, params) ==
    IF words = <<>> THEN params
    ELSE parseModifiersEach(Tail(words),
            The({ CASE modifier = T_constant -> [params EXCEPT !.constant = "true"]
                    [] modifier = T_payable ->
                          [params EXCEPT !.payable = "true", !.stateMutability = "payable"]
                    [] modifier = T_nonpayable ->
                          [params EXCEPT !.payable = "false", !.stateMutability = "nonpayable"]
                    [] modifier = T_pure -> [params EXCEPT !.constant = "true", !.stateMutability = "pure"]
                    [] modifier = T_view -> [params EXCEPT !.constant = "true", !.stateMutability = "view"]
                    [] OTHER -> params : modifier \in {trim(Head(words))} }))

parseModifiers(value) ==
    parseModifiersEach(split(value, <<" ">>),
                       [constant |-> "false", payable |-> "false", stateMutability |-> "nonpayable"])

\* parseGas: the value without its @gas, and the gas (<<>> for null)
parseGas(value) ==
    The({ IF Len(comps) = 1 THEN Ok([value |-> value, gas |-> <<>>])
          ELSE IF Len(comps) > 2 THEN throwArgumentError("invalid human-readable ABI signature")
          ELSE IF comps[2] = <<>> \/ \E i \in 1..Len(comps[2]) : comps[2][i] \notin Digits
          THEN throwArgumentError("invalid human-readable ABI signature gas")
          ELSE Ok([value |-> comps[1], gas |-> comps[2]]) : comps \in {split(value, <<"@">>)} })

\* a Fragment: every class with the fields of all of them
Fragment(type, name, inputs, outputs, state, anonymous, gas) ==
    [type |-> type, name |-> name, inputs |-> inputs, outputs |-> outputs,
     constant |-> state.constant, payable |-> state.payable, stateMutability |-> state.stateMutability,
     anonymous |-> anonymous, gas |-> gas]

NoState == [constant |-> FALSE, payable |-> FALSE, stateMutability |-> "undefined"]

\* a JSON fragment or the params built by fromString
JsonFragment(type, name, inputs, outputs, constant, payable, stateMutability, anonymous, gas) ==
    [type |-> type, name |-> name, inputs |-> inputs, outputs |-> outputs, constant |-> constant,
     payable |-> payable, stateMutability |-> stateMutability, anonymous |-> anonymous, gas |-> gas]

\* Fragment.format(sighash) of the three classes: name(inputs) trimmed
Fragment_format(fragment) ==
    The({ IF ~inputs.ok THEN inputs
          ELSE Ok(trim(fragment.name \o <<"(">> \o join(inputs.v, <<",">>) \o <<")", " ">>)) :
          inputs \in {ParamType_formats(fragment.inputs)} })

\* FunctionFragment.fromObject
FunctionFragment_fromObject(value) ==
    IF value.type # "function" THEN throwArgumentError("invalid function object")
    ELSE The({ IF ~state.ok THEN state
               ELSE IF ~regexIdentifier(value.name) THEN throwArgumentError("invalid identifier")
               ELSE Ok(Fragment("function", value.name, ParamType_fromObjects(value.inputs),
                                ParamType_fromObjects(value.outputs), state.v, FALSE, value.gas)) :
               state \in {verifyState(value)} })

\* FunctionFragment.fromString, after parseGas and the split on ' returns '
FunctionFragment_fromComps(comps, gas) ==
    IF Len(comps) > 2 THEN throwArgumentError("invalid function string")
    ELSE The({
        IF ~parens.ok THEN throwArgumentError("invalid function signature")
        ELSE The({
            IF name # <<>> /\ ~regexIdentifier(name) THEN throwArgumentError("invalid identifier")
            ELSE IF ~inputs.ok THEN inputs
            ELSE IF Len(comps) > 1 /\ ~returns.ok THEN Err(TypeErrorOfUndefined)
            ELSE IF Len(comps) > 1 /\ (trim(returns.v[1]) # <<>> \/ trim(returns.v[3]) # <<>>)
            THEN throwArgumentError("unexpected tokens")
            ELSE The({
                IF ~outputs.ok THEN outputs
                ELSE FunctionFragment_fromObject(
                         JsonFragment("function", name, inputs.v, outputs.v, mods.constant, mods.payable,
                                      mods.stateMutability, FALSE, gas)) :
                mods \in {parseModifiers(trim(parens.v[3]))},
                outputs \in {IF Len(comps) > 1 THEN parseParams(returns.v[2], FALSE) ELSE Ok(<<>>)} }) :
            name \in {trim(parens.v[1])},
            inputs \in {parseParams(parens.v[2], FALSE)},
            returns \in {IF Len(comps) > 1 THEN regexParen(comps[2]) ELSE Err(None)} }) :
        parens \in {regexParen(comps[1])} })

\* FunctionFragment.fromString
FunctionFragment_fromString(value) ==
    The({ IF ~gas.ok THEN gas
          ELSE FunctionFragment_fromComps(split(gas.v.value, T_returns), gas.v.gas) :
          gas \in {parseGas(value)} })

\* EventFragment.fromObject
EventFragment_fromObject(value) ==
    IF value.type # "event" THEN throwArgumentError("invalid event object")
    ELSE IF ~regexIdentifier(value.name) THEN throwArgumentError("invalid identifier")
    ELSE Ok(Fragment("event", value.name, ParamType_fromObjects(value.inputs), <<>>, NoState,
                     value.anonymous, <<>>))

\* EventFragment.fromString
EventFragment_fromString(value) ==
    The({ IF ~match.ok THEN throwArgumentError("invalid event string")
          ELSE The({ IF ~inputs.ok THEN inputs
                     ELSE EventFragment_fromObject(
                              JsonFragment("event", trim(match.v[1]), inputs.v, <<>>, "undefined",
                                           "undefined", "undefined",
                                           \E i \in 1..Len(words) : trim(words[i]) = T_anonymous, <<>>)) :
                     inputs \in {parseParams(match.v[2], TRUE)},
                     words \in {split(match.v[3], <<" ">>)} }) :
          match \in {regexParen(value)} })

\* no signature is forbidden
checkForbiddenMut(fragment) == Ok(fragment)

\* checkForbidden
checkForbidden(fragment) ==
    The({ IF ~sig.ok THEN sig
          ELSE IF sig.v = T_ErrorString \/ sig.v = T_PanicUint256
          THEN throwArgumentError("cannot specify user defined error")
          ELSE Ok(fragment) : sig \in {Fragment_format(fragment)} })

\* ErrorFragment.fromObject
ErrorFragment_fromObject(value) ==
    IF value.type # "error" THEN throwArgumentError("invalid error object")
    ELSE IF ~regexIdentifier(value.name) THEN throwArgumentError("invalid identifier")
    ELSE checkForbidden(Fragment("error", value.name, ParamType_fromObjects(value.inputs), <<>>,
                                 NoState, FALSE, <<>>))

\* Fragment.fromObject, for the types kept by the Interface
Fragment_fromObject(value) ==
    CASE value.type = "function" -> FunctionFragment_fromObject(value)
      [] value.type = "event" -> EventFragment_fromObject(value)
      [] value.type = "error" -> ErrorFragment_fromObject(value)
      [] OTHER -> throwArgumentError("invalid fragment object")

\* ErrorFragment.fromString: the third group of regexParen is not looked at
ErrorFragment_fromString(value) ==
    The({ IF ~parens.ok THEN throwArgumentError("invalid error signature")
          ELSE The({ IF name # <<>> /\ ~regexIdentifier(name) THEN throwArgumentError("invalid identifier")
                     ELSE IF ~inputs.ok THEN inputs
                     ELSE The({ IF ~fragment.ok THEN fragment ELSE checkForbidden(fragment.v) :
                                fragment \in {ErrorFragment_fromObject(
                                                 JsonFragment("error", name, inputs.v, <<>>, "undefined",
                                                              "undefined", "undefined", FALSE, <<>>))} }) :
                     name \in {trim(parens.v[1])},
                     inputs \in {parseParams(parens.v[2], FALSE)} }) :
          parens \in {regexParen(value)} })

\* value.replace(/\s/g, ' ').replace(/\(/g, ' (').replace(/\)/g, ') ')
spaceParens(value) ==
    SelectSeq([j \in 1..(2 * Len(value)) |->
                  The({ IF c = "(" THEN (IF j % 2 = 1 THEN " " ELSE "(")
                        ELSE IF c = ")" THEN (IF j % 2 = 1 THEN ")" ELSE " ")
                        ELSE IF j % 2 = 0 THEN ""
                        ELSE IF c \in {"\t", "\n"} THEN " " ELSE c : c \in {value[(j + 1) \div 2]} })],
              LAMBDA c : c # "")

\* value.replace(/\s+/g, ' ') of a text whose white space is spaces
singleSpaces(value) ==
    SelectSeq([i \in 1..Len(value) |-> IF value[i] = " " /\ i > 1 /\ value[i - 1] = " " THEN "" ELSE value[i]],
              LAMBDA c : c # "")

\* String.prototype.substring(start)
substring(value, start) == SubSeq(value, start + 1, Len(value))

\* Fragment.fromString, for the types kept by the Interface
Fragment_fromString(value) ==
    The({ CASE first = <<"e", "v", "e", "n", "t">> -> EventFragment_fromString(trim(substring(text, 5)))
            [] first = <<"f", "u", "n", "c", "t", "i", "o", "n">> -> FunctionFragment_fromString(trim(substring(text, 8)))
            [] first = <<"e", "r", "r", "o", "r">> -> ErrorFragment_fromString(trim(substring(text, 5)))
            [] OTHER -> throwArgumentError("unsupported fragment") :
          text \in {trim(singleSpaces(spaceParens(value)))},
          first \in {split(trim(singleSpaces(spaceParens(value))), <<" ">>)[1]} })

\* A value handed to the from functions: a string or a JSON object
StringValue(text) == [typeof |-> "string", x |-> text]
ObjectValue(object) == [typeof |-> "object", x |-> object]

\* ErrorFragment.from
ErrorFragment_from(value) ==
    IF value.typeof = "string" THEN ErrorFragment_fromString(value.x) ELSE ErrorFragment_fromObject(value.x)

\* Fragment.from
Fragment_from(value) ==
    IF value.typeof = "string" THEN Fragment_fromString(value.x) ELSE Fragment_fromObject(value.x)

\* ------------------------------------------------------------------------
\* Interface: construction and the lookups
\* ------------------------------------------------------------------------
\* keccak256 of the UTF-8 bytes of the signatures that occur, as the hex
\* string js-sha3 returns behind '0x'
Keccak256Table ==
    { [text |-> <<"N", "o", "t", "e", "(", "s", "t", "r", "i", "n", "g", ",", "u", "i", "n", "t", "2", "5", "6", ")">>,
       hash |-> <<"0", "x", "6", "d", "b", "5", "e", "e", "a", "e", "9", "5", "0", "1", "2", "4", "e", "c", "7", "2", "d", "2", "8", "5", "2", "6", "2", "1", "5", "3", "b", "7", "4", "7", "d", "0", "d", "b", "b", "9", "9", "1", "b", "c", "d", "f", "c", "2", "a", "d", "1", "7", "1", "4", "5", "a", "c", "3", "b", "5", "3", "b", "c", "6", "a", "9">>],
      [text |-> <<"M", "i", "x", "e", "d", "(", "u", "i", "n", "t", "2", "5", "6", ",", "b", "y", "t", "e", "s", ",", "a", "d", "d", "r", "e", "s", "s", ")">>,
       hash |-> <<"0", "x", "3", "5", "f", "1", "e", "1", "5", "6", "2", "8", "8", "4", "d", "f", "7", "a", "1", "9", "0", "f", "e", "7", "2", "b", "d", "4", "9", "1", "9", "2", "f", "0", "3", "5", "a", "b", "6", "c", "4", "8", "6", "7", "e", "6", "6", "2", "b", "1", "d", "3", "3", "3", "3", "8", "1", "d", "9", "d", "f", "f", "e", "b", "4", "8">>],
      [text |-> <<"A", "n", "o", "n", "(", "u", "i", "n", "t", "2", "5", "6", ",", "u", "i", "n", "t", "2", "5", "6", ")">>,
       hash |-> <<"0", "x", "0", "6", "2", "c", "7", "c", "2", "b", "c", "e", "9", "7", "6", "6", "0", "6", "2", "9", "c", "9", "2", "b", "7", "5", "f", "6", "e", "5", "f", "e", "9", "a", "1", "f", "2", "1", "5", "6", "2", "b", "f", "6", "a", "2", "2", "8", "6", "3", "5", "2", "d", "c", "5", "4", "5", "e", "a", "7", "d", "6", "4", "3", "a", "7">>],
      [text |-> <<"T", "u", "p", "(", "(", "u", "i", "n", "t", "8", ",", "s", "t", "r", "i", "n", "g", ")", ",", "u", "i", "n", "t", "8", "[", "2", "]", ",", "b", "o", "o", "l", ")">>,
       hash |-> <<"0", "x", "3", "a", "d", "7", "d", "c", "4", "5", "1", "b", "a", "6", "a", "d", "8", "0", "4", "0", "9", "5", "a", "4", "5", "2", "5", "a", "1", "1", "6", "a", "b", "7", "5", "1", "f", "c", "e", "1", "e", "a", "0", "4", "2", "8", "b", "f", "c", "5", "d", "f", "8", "f", "0", "0", "b", "1", "f", "d", "e", "1", "7", "f", "8", "8">>],
      [text |-> <<"E", "(", ",", "u", "i", "n", "t", "2", "5", "6", ")">>,
       hash |-> <<"0", "x", "a", "1", "2", "b", "b", "3", "9", "d", "2", "e", "d", "0", "0", "7", "e", "d", "8", "3", "7", "c", "7", "d", "d", "d", "2", "3", "f", "9", "a", "f", "d", "d", "b", "0", "0", "5", "b", "e", "5", "a", "9", "2", "7", "f", "b", "a", "a", "0", "0", "1", "b", "1", "9", "3", "0", "1", "f", "4", "f", "9", "c", "5", "9", "8">>],
      [text |-> <<"f", "(", "u", "i", "n", "t", "8", "[", "0", "]", "[", "]", ")">>,
       hash |-> <<"0", "x", "a", "5", "4", "1", "1", "f", "3", "b", "a", "6", "a", "a", "4", "8", "4", "8", "e", "1", "4", "7", "9", "4", "8", "5", "b", "a", "7", "b", "1", "6", "1", "2", "4", "2", "f", "2", "8", "a", "2", "5", "0", "c", "8", "5", "9", "6", "a", "a", "c", "4", "3", "a", "e", "9", "1", "1", "9", "3", "9", "7", "2", "a", "b", "1">>],
      [text |-> <<"t", "r", "a", "n", "s", "f", "e", "r", "(", "a", "d", "d", "r", "e", "s", "s", ",", "u", "i", "n", "t", "2", "5", "6", ")">>,
       hash |-> <<"0", "x", "a", "9", "0", "5", "9", "c", "b", "b", "2", "a", "b", "0", "9", "e", "b", "2", "1", "9", "5", "8", "3", "f", "4", "a", "5", "9", "a", "5", "d", "0", "6", "2", "3", "a", "d", "e", "3", "4", "6", "d", "9", "6", "2", "b", "c", "d", "4", "e", "4", "6", "b", "1", "1", "d", "a", "0", "4", "7", "c", "9", "0", "4", "9", "b">>],
      [text |-> <<"m", "a", "n", "y", "_", "m", "s", "g", "_", "b", "a", "b", "b", "a", "g", "e", "(", "b", "y", "t", "e", "s", "1", ")">>,
       hash |-> <<"0", "x", "a", "9", "0", "5", "9", "c", "b", "b", "c", "c", "9", "a", "e", "f", "9", "d", "c", "d", "d", "b", "4", "b", "e", "d", "0", "a", "2", "5", "3", "9", "b", "f", "d", "1", "8", "8", "9", "3", "3", "f", "c", "7", "1", "5", "3", "8", "6", "d", "f", "8", "9", "9", "2", "8", "f", "9", "5", "4", "3", "3", "5", "f", "f", "3">>],
      [text |-> <<"b", "a", "l", "a", "n", "c", "e", "O", "f", "(", "a", "d", "d", "r", "e", "s", "s", ")">>,
       hash |-> <<"0", "x", "7", "0", "a", "0", "8", "2", "3", "1", "b", "9", "8", "e", "f", "4", "c", "a", "2", "6", "8", "c", "9", "c", "c", "3", "f", "6", "b", "4", "5", "9", "0", "e", "4", "b", "f", "e", "c", "2", "8", "2", "8", "0", "d", "b", "0", "6", "b", "b", "5", "d", "4", "5", "e", "6", "8", "9", "f", "2", "a", "3", "6", "0", "b", "e">>],
      [text |-> <<"t", "r", "a", "n", "s", "f", "e", "r", "(", "a", "d", "d", "r", "e", "s", "s", ",", "u", "i", "n", "t", "2", "5", "6", ",", "b", "y", "t", "e", "s", ")">>,
       hash |-> <<"0", "x", "b", "e", "4", "5", "f", "d", "6", "2", "5", "b", "c", "9", "b", "4", "e", "5", "b", "6", "a", "9", "7", "7", "6", "6", "1", "1", "d", "2", "8", "d", "1", "9", "8", "0", "2", "5", "0", "4", "6", "4", "3", "7", "1", "3", "f", "7", "2", "4", "e", "2", "5", "5", "7", "a", "a", "d", "6", "0", "b", "e", "a", "8", "c", "b">>],
      [text |-> <<"i", "n", "f", "o", "(", "(", "u", "i", "n", "t", "8", ",", "s", "t", "r", "i", "n", "g", ")", "[", "]", ")">>,
       hash |-> <<"0", "x", "8", "7", "a", "4", "0", "5", "8", "0", "5", "d", "7", "0", "b", "d", "9", "0", "c", "e", "1", "b", "6", "b", "4", "1", "8", "5", "0", "d", "9", "8", "2", "a", "9", "3", "1", "c", "9", "2", "d", "6", "d", "1", "f", "b", "8", "a", "5", "7", "4", "c", "7", "9", "2", "3", "8", "3", "9", "9", "9", "0", "9", "3", "b", "d">>],
      [text |-> <<"T", "r", "a", "n", "s", "f", "e", "r", "(", "a", "d", "d", "r", "e", "s", "s", ",", "a", "d", "d", "r", "e", "s", "s", ",", "u", "i", "n", "t", "2", "5", "6", ")">>,
       hash |-> <<"0", "x", "d", "d", "f", "2", "5", "2", "a", "d", "1", "b", "e", "2", "c", "8", "9", "b", "6", "9", "c", "2", "b", "0", "6", "8", "f", "c", "3", "7", "8", "d", "a", "a", "9", "5", "2", "b", "a", "7", "f", "1", "6", "3", "c", "4", "a", "1", "1", "6", "2", "8", "f", "5", "5", "a", "4", "d", "f", "5", "2", "3", "b", "3", "e", "f">>],
      [text |-> <<"T", "r", "a", "n", "s", "f", "e", "r", "(", "a", "d", "d", "r", "e", "s", "s", ",", "u", "i", "n", "t", "2", "5", "6", ")">>,
       hash |-> <<"0", "x", "6", "9", "c", "a", "0", "2", "d", "d", "4", "e", "d", "d", "7", "b", "f", "0", "a", "4", "a", "b", "b", "9", "e", "d", "3", "b", "7", "a", "f", "3", "f", "1", "4", "7", "7", "8", "d", "b", "5", "d", "6", "1", "9", "2", "1", "c", "7", "d", "c", "7", "c", "d", "5", "4", "5", "2", "6", "6", "3", "2", "6", "d", "e", "2">>],
      [text |-> <<"I", "n", "s", "u", "f", "f", "i", "c", "i", "e", "n", "t", "(", "u", "i", "n", "t", "2", "5", "6", ")">>,
       hash |-> <<"0", "x", "9", "1", "b", "c", "c", "5", "6", "4", "f", "f", "b", "9", "3", "b", "b", "a", "8", "2", "5", "b", "f", "a", "d", "d", "4", "f", "e", "c", "3", "b", "e", "6", "6", "a", "5", "a", "f", "9", "6", "c", "1", "d", "7", "d", "8", "4", "4", "e", "d", "8", "4", "a", "d", "0", "1", "d", "8", "7", "4", "5", "e", "d", "3", "a">>],
      [text |-> <<"I", "n", "s", "u", "f", "f", "i", "c", "i", "e", "n", "t", "(", "u", "i", "n", "t", "2", "5", "6", ",", "u", "i", "n", "t", "2", "5", "6", ")">>,
       hash |-> <<"0", "x", "e", "8", "6", "2", "0", "8", "0", "0", "8", "0", "8", "3", "2", "c", "3", "c", "4", "5", "4", "e", "9", "0", "f", "2", "c", "3", "e", "8", "1", "4", "8", "a", "a", "6", "a", "c", "8", "1", "4", "1", "2", "0", "4", "b", "2", "5", "d", "d", "c", "0", "7", "3", "7", "5", "9", "f", "b", "0", "7", "e", "2", "2", "3", "f">>] }

\* id(text): keccak256(toUtf8Bytes(text))
id(text) == (CHOOSE row \in Keccak256Table : row.text = text).hash

HexChars == Digits \cup {"a", "b", "c", "d", "e", "f", "A", "B", "C", "D", "E", "F"}

\* isHexString(value), /^0x[0-9A-Fa-f]*$/
isHexString(value) ==
    /\ StartsWith(value, <<"0", "x">>)
    /\ \A i \in 3..Len(value) : value[i] \in HexChars

\* String.prototype.toLowerCase of a hex string
toLowerCase(value) ==
    [i \in 1..Len(value) |->
        CASE value[i] = "A" -> "a" [] value[i] = "B" -> "b" [] value[i] = "C" -> "c"
          [] value[i] = "D" -> "d" [] value[i] = "E" -> "e" [] value[i] = "F" -> "f"
          [] OTHER -> value[i]]

\* hexDataSlice(data, offset, endOffset) of a hex string
hexDataSlice(data, offset, endOffset) ==
    <<"0", "x">> \o SubSeq(data, 2 + 2 * offset + 1, Min(2 + 2 * endOffset, Len(data)))

\* static getSighash(fragment) and static getEventTopic(fragment)
Interface_getSighashOf(fragment) == hexDataSlice(id(Fragment_format(fragment).v), 0, 4)
Interface_getEventTopicOf(fragment) == id(Fragment_format(fragment).v)

\* an object used as a map: the keys in insertion order with their values
Bucket_has(bucket, key) == \E i \in 1..Len(bucket) : bucket[i].key = key
Bucket_get(bucket, key) == bucket[CHOOSE i \in 1..Len(bucket) : bucket[i].key = key].fragment

\* the constructor's loop over this.fragments: a signature already in its
\* bucket is warned about and left out
RECURSIVE Interface_addAll(_, _)
Interface_addAll(fragments, iface) ==
    IF fragments = <<>> THEN Ok(iface)
    ELSE LET fragment == Head(fragments)
             bucket == CASE fragment.type = "function" -> iface.functions
                         [] fragment.type = "event" -> iface.events
                         [] fragment.type = "error" -> iface.errors
         IN  The({ IF ~signature.ok THEN signature
                   ELSE Interface_addAll(Tail(fragments),
                           IF Bucket_has(bucket, signature.v) THEN iface
                           ELSE The({ CASE fragment.type = "function" ->
                                                [iface EXCEPT !.functions = Append(@, entry)]
                                        [] fragment.type = "event" ->
                                                [iface EXCEPT !.events = Append(@, entry)]
                                        [] fragment.type = "error" ->
                                                [iface EXCEPT !.errors = Append(@, entry)] :
                                      entry \in {[key |-> signature.v, fragment |-> fragment]} })) :
                   signature \in {Fragment_format(fragment)} })

\* abi.map(fragment => Fragment.from(fragment))
RECURSIVE Fragment_fromAll(_)
Fragment_fromAll(abi) ==
    IF abi = <<>> THEN Ok(<<>>)
    ELSE The({ IF ~first.ok THEN first
               ELSE The({ IF ~rest.ok THEN rest ELSE Ok(<<first.v>> \o rest.v) :
                          rest \in {Fragment_fromAll(Tail(abi))} }) :
               first \in {Fragment_fromObject(Head(abi))} })

\* new Interface(fragments)
Interface_new(abi) ==
    The({ IF ~fragments.ok THEN fragments
          ELSE Interface_addAll(fragments.v,
                   [fragments |-> fragments.v, functions |-> <<>>, events |-> <<>>, errors |-> <<>>]) :
          fragments \in {Fragment_fromAll(abi)} })

\* f.split('(')[0], the name part of a key
keyNameMut(key) == key

keyName(key) == split(key, <<"(">>)[1]

\* Object.keys(bucket).filter(f => f.split('(')[0] === name)
matchingKeys(bucket, name) ==
    SelectSeq([i \in 1..Len(bucket) |-> bucket[i].key], LAMBDA key : keyName(key) = name)

\* matching.length > 1
isAmbiguousMut(matching) == FALSE

isAmbiguous(matching) == Len(matching) > 1

\* the bare-name branch shared by the three lookups
Interface_getByName(bucket, nameOrSignature) ==
    The({ IF Len(matching) = 0 THEN throwArgumentError("no matching fragment")
          ELSE IF isAmbiguous(matching) THEN throwArgumentError("multiple matching fragments")
          ELSE Ok(Bucket_get(bucket, matching[1])) :
          matching \in {matchingKeys(bucket, trim(nameOrSignature))} })

\* the signature branch: fromString(signature).format() is the key looked up
Interface_getBySignature(bucket, parsed) ==
    IF ~parsed.ok THEN parsed
    ELSE The({ IF ~signature.ok THEN signature
               ELSE IF ~Bucket_has(bucket, signature.v) THEN throwArgumentError("no matching fragment")
               ELSE Ok(Bucket_get(bucket, signature.v)) :
               signature \in {Fragment_format(parsed.v)} })

RECURSIVE Interface_getFunction(_, _)
RECURSIVE Interface_getError(_, _)
RECURSIVE Interface_getEvent(_, _)
RECURSIVE Interface_getSighash(_, _)
RECURSIVE Interface_getEventTopic(_, _)
RECURSIVE Interface_scan(_, _, _, _)

\* getSighash(fragment: string): getFunction, else getError, else the
\* error of getFunction; then the static getSighash
Interface_getSighash(iface, fragment) ==
    The({ IF function.ok THEN Ok(Interface_getSighashOf(function.v))
          ELSE The({ IF error.ok THEN Ok(Interface_getSighashOf(error.v)) ELSE function :
                     error \in {Interface_getError(iface, fragment)} }) :
          function \in {Interface_getFunction(iface, fragment)} })

\* getEventTopic(eventFragment: string)
Interface_getEventTopic(iface, eventFragment) ==
    The({ IF event.ok THEN Ok(Interface_getEventTopicOf(event.v)) ELSE event :
          event \in {Interface_getEvent(iface, eventFragment)} })

\* for (const name in bucket): the first entry whose hash is the one asked
\* for; an error thrown while hashing a name leaves the lookup
Interface_scan(iface, bucket, hash, getter) ==
    IF bucket = <<>> THEN throwArgumentError("no matching fragment")
    ELSE The({ IF ~hashed.ok THEN hashed
               ELSE IF hashed.v = hash THEN Ok(bucket[1].fragment)
               ELSE Interface_scan(iface, Tail(bucket), hash, getter) :
               hashed \in {CASE getter = "getFunction" -> Interface_getSighash(iface, bucket[1].key)
                             [] getter = "getEvent" -> Interface_getEventTopic(iface, bucket[1].key)
                             [] getter = "getError" -> Ok(Interface_getSighashOf(bucket[1].fragment))} })

\* Interface.getFunction
Interface_getFunction(iface, nameOrSignatureOrSighash) ==
    IF isHexString(nameOrSignatureOrSighash)
    THEN Interface_scan(iface, iface.functions, nameOrSignatureOrSighash, "getFunction")
    ELSE IF IndexOf(nameOrSignatureOrSighash, "(") = 0
    THEN Interface_getByName(iface.functions, nameOrSignatureOrSighash)
    ELSE Interface_getBySignature(iface.functions, FunctionFragment_fromString(nameOrSignatureOrSighash))

\* Interface.getEvent
Interface_getEvent(iface, nameOrSignatureOrTopic) ==
    IF isHexString(nameOrSignatureOrTopic)
    THEN Interface_scan(iface, iface.events, toLowerCase(nameOrSignatureOrTopic), "getEvent")
    ELSE IF IndexOf(nameOrSignatureOrTopic, "(") = 0
    THEN Interface_getByName(iface.events, nameOrSignatureOrTopic)
    ELSE Interface_getBySignature(iface.events, EventFragment_fromString(nameOrSignatureOrTopic))

\* Interface.getError
Interface_getError(iface, nameOrSignatureOrSighash) ==
    IF isHexString(nameOrSignatureOrSighash)
    THEN Interface_scan(iface, iface.errors, nameOrSignatureOrSighash, "getError")
    ELSE IF IndexOf(nameOrSignatureOrSighash, "(") = 0
    THEN Interface_getByName(iface.errors, nameOrSignatureOrSighash)
    ELSE Interface_getBySignature(iface.errors, FunctionFragment_fromString(nameOrSignatureOrSighash))

\* ------------------------------------------------------------------------
\* Hex strings and bytes
\* ------------------------------------------------------------------------
HexCharacters == <<"0", "1", "2", "3", "4", "5", "6", "7", "8", "9", "a", "b", "c", "d", "e", "f">>

\* hexlify of a Uint8Array
hexlify(bytes) ==
    <<"0", "x">> \o
    [i \in 1..(2 * Len(bytes)) |->
        IF i % 2 = 1 THEN HexCharacters[(bytes[(i + 1) \div 2] \div 16) + 1]
        ELSE HexCharacters[(bytes[i \div 2] % 16) + 1]]

\* parseInt(c, 16) of one hex digit
parseHexDigit(c) == CHOOSE d \in 0..15 : HexCharacters[d + 1] = toLowerCase(<<c>>)[1]

\* arrayify of a string, without options: a hex string of odd length is
\* refused
arrayify(value) ==
    IF ~isHexString(value) THEN throwArgumentError("invalid arrayify value")
    ELSE IF Len(value) % 2 = 1 THEN throwArgumentError("hex data is odd-length")
    ELSE Ok([i \in 1..((Len(value) - 2) \div 2) |->
                16 * parseHexDigit(value[2 * i + 1]) + parseHexDigit(value[2 * i + 2])])

\* ------------------------------------------------------------------------
\* Interface: encoding and decoding against a fragment
\* ------------------------------------------------------------------------
\* the names of the parameters that occur, as the coders carry them
LocalNames ==
    { [text |-> <<>>, name |-> ""],
      [text |-> <<"t", "o">>, name |-> "to"],
      [text |-> <<"f", "r", "o", "m">>, name |-> "from"],
      [text |-> <<"a", "m", "o", "u", "n", "t">>, name |-> "amount"],
      [text |-> <<"n", "o", "t", "e">>, name |-> "note"],
      [text |-> <<"w", "h", "o">>, name |-> "who"],
      [text |-> <<"i", "d">>, name |-> "id"] }

localNameOf(text) == (CHOOSE row \in LocalNames : row.text = text).name

\* paramTypeNumber, /^(u?int)([0-9]*)$/, and paramTypeBytes, /^bytes([0-9]*)$/
paramTypeNumber(type) ==
    \/ StartsWith(type, T_uint) /\ \A i \in 5..Len(type) : type[i] \in Digits
    \/ StartsWith(type, T_int) /\ \A i \in 4..Len(type) : type[i] \in Digits

paramTypeBytes(type) ==
    StartsWith(type, T_bytes) /\ \A i \in 6..Len(type) : type[i] \in Digits

\* AbiCoder._getCoder reading a ParamType object: the switch on baseType,
\* then the two matches on type
RECURSIVE AbiCoder_paramOf(_)
AbiCoder_paramOf(param) ==
    CASE param.baseType = T_address -> PLeaf("address", 0, localNameOf(param.name))
      [] param.baseType = <<"b", "o", "o", "l">> -> PLeaf("bool", 0, localNameOf(param.name))
      [] param.baseType = T_string -> PLeaf("string", 0, localNameOf(param.name))
      [] param.baseType = T_bytes -> PLeaf("bytes", 0, localNameOf(param.name))
      [] param.baseType = <<"a", "r", "r", "a", "y">> ->
            PArray(AbiCoder_paramOf(param.arrayChildren[1]), param.arrayLength, localNameOf(param.name))
      [] param.baseType = T_tuple ->
            PTuple([i \in 1..Len(param.components) |-> AbiCoder_paramOf(param.components[i])],
                   localNameOf(param.name))
      [] param.baseType = <<>> -> PLeaf("", 0, localNameOf(param.name))
      [] OTHER ->
            IF paramTypeNumber(param.type)
            THEN LET signed == StartsWith(param.type, T_int)
                     digits == SubSeq(param.type, IF signed THEN 4 ELSE 5, Len(param.type))
                 IN  PLeaf(IF signed THEN "int" ELSE "uint",
                           IF digits = <<>> THEN 256 ELSE parseDigits(digits), localNameOf(param.name))
            ELSE IF paramTypeBytes(param.type)
            THEN PLeaf("bytesN", parseDigits(SubSeq(param.type, 6, Len(param.type))), localNameOf(param.name))
            ELSE PLeaf("invalid", 0, localNameOf(param.name))

AbiCoder_paramsOf(params) == [i \in 1..Len(params) |-> AbiCoder_paramOf(params[i])]

\* Interface._encodeParams and Interface._decodeParams
Interface_encodeParams(params, values) == AbiCoder_encode(AbiCoder_paramsOf(params), values)
Interface_decodeParams(params, data) == AbiCoder_decode(AbiCoder_paramsOf(params), data, FALSE)

\* Interface.encodeFunctionData: the hex string of selector ++ encoded inputs
Interface_encodeFunctionData(functionFragment, values) ==
    The({ IF ~params.ok THEN params
          ELSE Ok(hexlify(arrayify(Interface_getSighashOf(functionFragment)).v \o params.v)) :
          params \in {Interface_encodeParams(functionFragment.inputs, values)} })

\* Interface.decodeFunctionData
Interface_decodeFunctionData(functionFragment, data) ==
    The({ IF ~bytes.ok THEN bytes
          ELSE IF hexlify(Slice(bytes.v, 0, 4)) # Interface_getSighashOf(functionFragment)
          THEN throwArgumentError("data signature does not match function")
          ELSE Interface_decodeParams(functionFragment.inputs, Slice(bytes.v, 4, Len(bytes.v))) :
          bytes \in {arrayify(data)} })

\* ------------------------------------------------------------------------
\* Interface: event logs
\* ------------------------------------------------------------------------
\* new Indexed({ _isIndexed: true, hash })
Indexed(hash) == [k |-> "Indexed", hash |-> hash]

\* isHexString(value, length); a value that is not a string is not one
isHexStringOf(value, length) == isHexString(value) /\ Len(value) = 2 + 2 * length

\* decodeEventLog: an indexed input whose topic is the hash of its value
isHashedTopic(param) ==
    \/ param.type = T_string
    \/ param.type = T_bytes
    \/ param.baseType = T_tuple
    \/ param.baseType = <<"a", "r", "r", "a", "y">>

\* decodeEventLog, the first forEach: the array indexed, with bytes32 in
\* the place of the hashed inputs, and the array nonIndexed
eventIndexed(inputs) ==
    [i \in 1..Len(SelectSeq(inputs, LAMBDA p : p.indexed = "true")) |->
        The({ IF isHashedTopic(param)
              THEN ParamType_fromObject([type |-> <<"b", "y", "t", "e", "s", "3", "2">>, name |-> param.name,
                                         indexed |-> "undefined", components |-> <<>>,
                                         hasComponents |-> FALSE])
              ELSE param :
              param \in {SelectSeq(inputs, LAMBDA p : p.indexed = "true")[i]} })]
eventNonIndexed(inputs) == SelectSeq(inputs, LAMBDA p : p.indexed # "true")

\* concat(topics): arrayify of each item, the first failure thrown
arrayifyAll(items) ==
    IF \E i \in 1..Len(items) : ~arrayify(items[i]).ok
    THEN arrayify(items[CHOOSE i \in 1..Len(items) :
                          ~arrayify(items[i]).ok /\ \A j \in 1..(i - 1) : arrayify(items[j]).ok])
    ELSE Ok(concat([i \in 1..Len(items) |-> arrayify(items[i]).v]))

\* resultIndexed[indexedIndex++] and resultNonIndexed[nonIndexedIndex++]:
\* the element, undefined past the end; read inside try/catch an element
\* that throws is kept as the error
resultAt(result, index) == IF index <= Len(result.x) THEN result.x[index] ELSE VUndefined

\* decodeEventLog, the second forEach: the number of indexed inputs before
\* input index is indexedIndex, that of the others nonIndexedIndex
indexedIndex(inputs, index) == Cardinality({j \in 1..(index - 1) : inputs[j].indexed = "true"})
nonIndexedIndex(inputs, index) == Cardinality({j \in 1..(index - 1) : inputs[j].indexed # "true"})

\* result[index] of decodeEventLog; resultIndexed is Ok(null) without topics
eventElement(inputs, index, resultIndexed, resultNonIndexed) ==
    IF inputs[index].indexed = "true"
    THEN IF resultIndexed.v.k = "null" THEN Indexed(VNull)
         ELSE IF isHashedTopic(inputs[index])
         THEN Indexed(resultAt(resultIndexed.v, indexedIndex(inputs, index) + 1))
         ELSE resultAt(resultIndexed.v, indexedIndex(inputs, index) + 1)
    ELSE resultAt(resultNonIndexed.v, nonIndexedIndex(inputs, index) + 1)

\* "Add the keyword argument if named and safe": the named properties in
\* input order; a name is set while result[name] == null
eventNamed(inputs, elements) ==
    The({ [n \in 1..Len(set) |-> [name |-> localNameOf(inputs[set[n]].name), v |-> elements[set[n]]]] :
          set \in {SelectSeq([i \in 1..Len(inputs) |-> i],
                             LAMBDA i : /\ inputs[i].name # <<>>
                                        /\ \A j \in 1..(i - 1) :
                                              inputs[j].name = inputs[i].name
                                                  => elements[j].k \in {"null", "undefined"})} })

\* Interface.decodeEventLog(eventFragment, data, topics); topics is
\* [given |-> FALSE] when the argument is left out.  An Indexed hash taken
\* from an element that throws, and a name looked up on the result after an
\* error was stored under it, throw out of the call.
Interface_decodeEventLog(eventFragment, data, topics) ==
    IF /\ topics.given /\ ~eventFragment.anonymous
       /\ \/ Len(topics.x) = 0
          \/ ~isHexStringOf(topics.x[1], 32)
          \/ toLowerCase(topics.x[1]) # Interface_getEventTopicOf(eventFragment)
    THEN Err(makeError("fragment/topic mismatch", INVALID_ARGUMENT))
    ELSE The({ IF ~resultIndexed.ok THEN Err(resultIndexed.err)
               ELSE IF ~bytes.ok THEN bytes
               ELSE The({ IF ~resultNonIndexed.ok THEN Err(resultNonIndexed.err)
                          ELSE The({ IF \E i \in 1..Len(inputs) :
                                          /\ elements[i].k = "Indexed"
                                          /\ elements[i].hash.k = "error"
                                     THEN Err(makeError("deferred error during ABI decoding", PLAIN_ERROR))
                                     ELSE IF \E i \in 1..Len(inputs), j \in 1..Len(inputs) :
                                               /\ j < i /\ inputs[i].name # <<>> /\ inputs[j].name = inputs[i].name
                                               /\ elements[j].k = "error"
                                     THEN Err(makeError("deferred error during ABI decoding", PLAIN_ERROR))
                                     ELSE Ok([k |-> "result", x |-> elements,
                                              named |-> eventNamed(inputs, elements)]) :
                                     elements \in {[i \in 1..Len(inputs) |->
                                                      eventElement(inputs, i, resultIndexed, resultNonIndexed)]} }) :
                          resultNonIndexed \in {AbiCoder_decode(AbiCoder_paramsOf(eventNonIndexed(inputs)),
                                                                IF bytes.ok THEN bytes.v ELSE <<>>, TRUE)} }) :
               inputs \in {eventFragment.inputs},
               bytes \in {arrayify(data)},
               resultIndexed \in
                   {IF ~topics.given THEN Ok(VNull)
                    ELSE The({ IF ~joined.ok THEN joined
                               ELSE AbiCoder_decode(AbiCoder_paramsOf(eventIndexed(eventFragment.inputs)),
                                                    joined.v, FALSE) :
                               joined \in {arrayifyAll(IF eventFragment.anonymous THEN topics.x
                                                       ELSE Tail(topics.x))} })} })

\* keccak256 of bytes, for the bytes that filters hash
KeccakOfBytes ==
    { [bytes |-> <<97>>,
       hash |-> <<"0", "x", "3", "a", "c", "2", "2", "5", "1", "6", "8", "d", "f", "5", "4", "2", "1", "2", "a", "2", "5", "c", "1", "c", "0", "1", "f", "d", "3", "5", "b", "e", "b", "f", "e", "a", "4", "0", "8", "f", "d", "a", "c", "2", "e", "3", "1", "d", "d", "d", "6", "f", "8", "0", "a", "4", "b", "b", "f", "9", "a", "5", "f", "1", "c", "b">>],
      [bytes |-> <<7>>,
       hash |-> <<"0", "x", "e", "e", "2", "a", "4", "b", "c", "7", "d", "b", "8", "1", "d", "a", "2", "b", "7", "1", "6", "4", "e", "5", "6", "b", "3", "6", "4", "9", "b", "1", "e", "2", "a", "0", "9", "c", "5", "8", "c", "4", "5", "5", "b", "1", "5", "d", "a", "b", "d", "d", "d", "9", "1", "4", "6", "c", "7", "5", "8", "2", "c", "e", "b", "c">>],
      [bytes |-> <<>>,
       hash |-> <<"0", "x", "c", "5", "d", "2", "4", "6", "0", "1", "8", "6", "f", "7", "2", "3", "3", "c", "9", "2", "7", "e", "7", "d", "b", "2", "d", "c", "c", "7", "0", "3", "c", "0", "e", "5", "0", "0", "b", "6", "5", "3", "c", "a", "8", "2", "2", "7", "3", "b", "7", "b", "f", "a", "d", "8", "0", "4", "5", "d", "8", "5", "a", "4", "7", "0">>] }

keccak256(bytes) == (CHOOSE row \in KeccakOfBytes : row.bytes = bytes).hash

\* a topic of a filter: a hex string
Topic(text) == [k |-> "topic", x |-> text]

\* hexlify of a filter value: a number or BigNumber, a hex string, bytes
hexlifyValue(value) ==
    CASE value.k = "num" ->
            IF value.js /\ value.neg THEN Err(makeError("invalid hexlify value", NUMERIC_FAULT))
            ELSE Ok((IF value.neg THEN <<"-">> ELSE <<>>) \o hexlify(Strip(value.mag)))
      [] value.k \in {"hex", "address"} -> Ok(hexlify(value.x))
      [] OTHER -> throwArgumentError("invalid hexlify value")

\* hexZeroPad(value, length) of a string
hexZeroPad(value, length) ==
    IF ~isHexString(value) THEN throwArgumentError("invalid hex string")
    ELSE IF Len(value) > 2 * length + 2 THEN throwArgumentError("value out of range")
    ELSE Ok(<<"0", "x">> \o [i \in 1..(2 * length + 2 - Len(value)) |-> "0"] \o SubSeq(value, 3, Len(value)))

\* encodeFilterTopics, encodeTopic(param, value)
encodeTopic(param, value) ==
    IF param.type = T_string
    THEN The({ IF ~bytes.ok THEN bytes ELSE Ok(Topic(keccak256(bytes.v))) :
               bytes \in {toUtf8Bytes(value.x)} })
    ELSE IF param.type = T_bytes
    THEN The({ IF ~hex.ok THEN hex
               ELSE The({ IF ~bytes.ok THEN bytes ELSE Ok(Topic(keccak256(bytes.v))) :
                          bytes \in {arrayify(hex.v)} }) :
               hex \in {hexlifyValue(value)} })
    ELSE The({ IF ~checked.ok THEN Err(checked.err)
               ELSE The({ IF ~hex.ok THEN hex
                          ELSE The({ IF ~padded.ok THEN padded ELSE Ok(Topic(padded.v)) :
                                     padded \in {hexZeroPad(hex.v, 32)} }) :
                          hex \in {hexlifyValue(value)} }) :
               checked \in {IF param.type = T_address
                            THEN AbiCoder_encode(<<PLeaf("address", 0, "")>>, <<value>>)
                            ELSE Ok(<<>>)} })

\* value.map(value => encodeTopic(param, value)): the first failure thrown
encodeTopicAll(param, values) ==
    IF \E i \in 1..Len(values) : ~encodeTopic(param, values[i]).ok
    THEN encodeTopic(param, values[CHOOSE i \in 1..Len(values) :
                                      /\ ~encodeTopic(param, values[i]).ok
                                      /\ \A j \in 1..(i - 1) : encodeTopic(param, values[j]).ok])
    ELSE Ok(VList([i \in 1..Len(values) |-> encodeTopic(param, values[i]).v]))

\* encodeFilterTopics, values.forEach from index on: the topics pushed
RECURSIVE encodeFilterEach(_, _, _, _)
encodeFilterEach(inputs, values, index, topics) ==
    IF index > Len(values) THEN Ok(topics)
    ELSE IF inputs[index].indexed # "true"
    THEN IF values[index].k \notin {"null", "undefined"}
         THEN throwArgumentError("cannot filter non-indexed parameters; must be null")
         ELSE encodeFilterEach(inputs, values, index + 1, topics)
    ELSE IF values[index].k \in {"null", "undefined"}
    THEN encodeFilterEach(inputs, values, index + 1, Append(topics, VNull))
    ELSE IF inputs[index].baseType = <<"a", "r", "r", "a", "y">> \/ inputs[index].baseType = T_tuple
    THEN throwArgumentError("filtering with tuples or arrays not supported")
    ELSE The({ IF ~topic.ok THEN topic
               ELSE encodeFilterEach(inputs, values, index + 1, Append(topics, topic.v)) :
               topic \in {IF values[index].k = "list" THEN encodeTopicAll(inputs[index], values[index].x)
                          ELSE encodeTopic(inputs[index], values[index])} })

\* "Trim off trailing nulls": while (topics.length && topics[topics.length - 1] === null) topics.pop()
trimNullsMut(topics) ==
    IF topics # <<>> /\ topics[Len(topics)].k = "null" THEN SubSeq(topics, 1, Len(topics) - 1) ELSE topics

trimNulls(topics) ==
    IF \A i \in 1..Len(topics) : topics[i].k = "null" THEN <<>>
    ELSE SubSeq(topics, 1, CHOOSE n \in 1..Len(topics) :
                              topics[n].k # "null" /\ \A i \in (n + 1)..Len(topics) : topics[i].k = "null")

\* Interface.encodeFilterTopics(eventFragment, values)
Interface_encodeFilterTopics(eventFragment, values) ==
    IF Len(values) > Len(eventFragment.inputs)
    THEN Err(makeError("too many arguments", UNEXPECTED_ARGUMENT))
    ELSE The({ IF ~topics.ok THEN topics ELSE Ok(trimNulls(topics.v)) :
               topics \in {encodeFilterEach(eventFragment.inputs, values, 1,
                                            IF eventFragment.anonymous THEN <<>>
                                            ELSE <<Topic(Interface_getEventTopicOf(eventFragment))>>)} })

\* ------------------------------------------------------------------------
\* BigNumber.div and BigNumber.mod, on values of up to three bytes
\* ------------------------------------------------------------------------
\* throwFault(fault, operation)
throwFault(fault) == Err(makeError(fault, NUMERIC_FAULT))

\* BN.div: the quotient of the magnitudes, negative when the signs differ
BnDiv(x, y) == toBigNumber(x.neg # y.neg, IntToMag(MagToInt(x.mag) \div MagToInt(y.mag)))

\* BN.umod for a positive y: the remainder of the magnitudes, taken from y
\* when x is negative and the remainder is not zero
BnUmod(x, y) ==
    The({ toBigNumber(FALSE, IntToMag(IF x.neg /\ m # 0 THEN MagToInt(y.mag) - m ELSE m)) :
          m \in {MagToInt(x.mag) % MagToInt(y.mag)} })

\* BigNumber.div: only a zero divisor is a fault
BigNumber_div(x, other) ==
    IF isZero(other) THEN throwFault("division by zero") ELSE Ok(BnDiv(x, other))

\* BigNumber.mod: a negative divisor is a fault; BN.umod asserts that the
\* divisor is not zero
BigNumber_mod(x, other) ==
    IF other.neg THEN throwFault("cannot modulo negative values")
    ELSE IF isZero(other) THEN Err(makeError("Assertion failed", PLAIN_ERROR))
    ELSE Ok(BnUmod(x, other))

\* ------------------------------------------------------------------------
\* Logger: censorship
\* ------------------------------------------------------------------------
\* the depth of calls after which the engine throws a RangeError
MaxCallStack == 6

\* a JavaScript RangeError (no code property): the call stack is exhausted
RANGE_ERROR == "RangeError"
UNKNOWN_ERROR == "UNKNOWN_ERROR"
RangeError == [k |-> "error", code |-> RANGE_ERROR, reason |-> "Maximum call stack size exceeded"]

\* the params of an error, by their keys, and params left out
ParamsOf(keys) == [given |-> TRUE, keys |-> keys]
NoParams == [given |-> FALSE]

\* the branch of makeError taken when errors are censored left out
Logger_makeErrorMut(censorErrors, message, code, params, depth) ==
    Ok([k |-> "error", code |-> IF code = "undefined" THEN UNKNOWN_ERROR ELSE code,
        reason |-> message, params |-> IF params.given THEN params.keys ELSE {}])

\* Logger.makeError(message, code, params), _censorErrors being as given:
\* the error returned, or the RangeError thrown when the calls of
\* makeError by itself exhaust the stack; params is the set of the keys
RECURSIVE Logger_makeError(_, _, _, _, _)
Logger_makeError(censorErrors, message, code, params, depth) ==
    IF depth > MaxCallStack THEN Err(RangeError)
    ELSE IF censorErrors THEN Logger_makeError(censorErrors, "censored error", code, ParamsOf({}), depth + 1)
    ELSE Ok([k |-> "error", code |-> IF code = "undefined" THEN UNKNOWN_ERROR ELSE code,
             reason |-> message, params |-> IF params.given THEN params.keys ELSE {}])

\* Logger.throwError: throw this.makeError(message, code, params)
Logger_throwError(censorErrors, message, code, params) ==
    The({ IF made.ok THEN Err(made.v) ELSE made :
          made \in {Logger_makeError(censorErrors, message, code, params, 1)} })

\* the flags set without a look at _permanentCensorErrors
Logger_setCensorshipMut(censorErrors, permanentCensorErrors, censorship, permanent) ==
    IF ~censorship /\ permanent
    THEN [censorErrors |-> censorErrors, permanentCensorErrors |-> permanentCensorErrors,
          res |-> Logger_throwError(censorErrors, "cannot permanently disable censorship",
                                    UNSUPPORTED_OPERATION, ParamsOf({"operation"}))]
    ELSE [censorErrors |-> censorship, permanentCensorErrors |-> permanent, res |-> Ok(VUndefined)]

\* Logger.setCensorship(censorship, permanent): the flags after the call
\* and what the call threw, if it did
Logger_setCensorship(censorErrors, permanentCensorErrors, censorship, permanent) ==
    IF ~censorship /\ permanent
    THEN [censorErrors |-> censorErrors, permanentCensorErrors |-> permanentCensorErrors,
          res |-> Logger_throwError(censorErrors, "cannot permanently disable censorship",
                                    UNSUPPORTED_OPERATION, ParamsOf({"operation"}))]
    ELSE IF permanentCensorErrors
    THEN IF ~censorship
         THEN [censorErrors |-> censorErrors, permanentCensorErrors |-> permanentCensorErrors,
               res |-> Ok(VUndefined)]
         ELSE [censorErrors |-> censorErrors, permanentCensorErrors |-> permanentCensorErrors,
               res |-> Logger_throwError(censorErrors, "error censorship permanent",
                                         UNSUPPORTED_OPERATION, ParamsOf({"operation"}))]
    ELSE [censorErrors |-> censorship, permanentCensorErrors |-> permanent, res |-> Ok(VUndefined)]

\* ------------------------------------------------------------------------
\* NumberCoder on its own: encode one value, decode one word
\* ------------------------------------------------------------------------
\* the garbage bytes put above the low N bits of a word before decoding
GarbageBytes == {0, 171, 255}

\* an input value is s * (2^e + d)
NumExps(size) == {0, 8 * size - 2, 8 * size - 1, 8 * size}
NumInputs(size) == [e : NumExps(size), d : {-1, 0, 1}, s : {1, -1}]

MagPow2(e) == <<2 ^ (e % 8)>> \o Zeros(e \div 8)

NumInputValue(in) ==
    LET p == MagPow2(in.e)
        m == IF in.d = 0 THEN p ELSE IF in.d = 1 THEN MagInc(p) ELSE MagDec(p)
    IN  toBigNumber(in.s = -1, m)

NumInit ==
    /\ nPc = "ready"
    /\ \E size \in 1..32, signed \in BOOLEAN : nCoder = NumberCoder(size, signed, "")
    /\ nIn \in NumInputs(nCoder.size)
    /\ nValue = NumInputValue(nIn)
    /\ nEnc = None
    /\ nWord = <<>>
    /\ nDec = None
    /\ cIdle /\ dIdle /\ fIdle /\ iIdle /\ xIdle /\ eIdle /\ pIdle /\ sIdle /\ qIdle

\* coder.encode(writer, value) on a fresh Writer
NumEncode ==
    /\ nPc = "ready"
    /\ nEnc' = NumberCoder_encode(nCoder, NewWriter, VNum(nValue, FALSE))
    /\ nWord' = Writer_data(nEnc'.w)
    /\ nPc' = "encoded"
    /\ UNCHANGED <<nCoder, nIn, nValue, nDec, cVars, dVars, fVars, iVars, xVars, eVars, pVars, sVars, qVars>>

\* the same low N bits inside another word
NumTamper ==
    /\ nPc = "encoded"
    /\ nEnc.ok
    /\ nCoder.size < wordSize
    /\ \E g \in GarbageBytes :
          nWord' = [i \in 1..wordSize |-> IF i <= wordSize - nCoder.size THEN g ELSE nWord[i]]
    /\ nWord' # nWord
    /\ UNCHANGED <<nPc, nCoder, nIn, nValue, nEnc, nDec, cVars, dVars, fVars, iVars, xVars, eVars, pVars, sVars, qVars>>

\* coder.decode(reader) on a Reader over the word
NumDecode ==
    /\ nPc = "encoded"
    /\ nEnc.ok
    /\ nDec' = NumberCoder_decode(nCoder, NewReader(nWord, FALSE))
    /\ nPc' = "decoded"
    /\ UNCHANGED <<nCoder, nIn, nValue, nEnc, nWord, cVars, dVars, fVars, iVars, xVars, eVars, pVars, sVars, qVars>>

NumNext == NumEncode \/ NumTamper \/ NumDecode

SpecNumber == NumInit /\ [][NumNext]_vars

\* the declared range, from the shape s * (2^e + d) of the input and N >= 8
NumInRange(c, in) ==
    LET N == 8 * c.size
        magZero == in.e = 0 /\ in.d = -1
    IN  IF c.signed
        THEN IF in.s = 1 \/ magZero
             THEN in.e < N - 1 \/ (in.e = N - 1 /\ in.d = -1)
             ELSE in.e < N - 1 \/ (in.e = N - 1 /\ in.d <= 0)
        ELSE (in.s = 1 \/ magZero) /\ (in.e < N \/ (in.e = N /\ in.d = -1))

\* the same for the widths whose range fits the integers of the checker
NumInRangeInt(c, in) ==
    LET N == 8 * c.size
        v == in.s * (2 ^ in.e + in.d)
    IN  IF c.signed THEN 0 - 2 ^ (N - 1) <= v /\ v <= 2 ^ (N - 1) - 1
        ELSE 0 <= v /\ v <= 2 ^ N - 1

\* C2: NumberCoder.encode accepts exactly the values of the declared range
\* of intN / uintN (N = 8..256): a value outside it, such as 2^(N-1) for
\* intN, fails with the value-out-of-bounds argument error, and an accepted
\* value, such as 2^(N-1)-1, decodes back to itself from the word written.
C2_RangeExact ==
    /\ nPc # "ready" =>
          /\ nEnc.ok <=> NumInRange(nCoder, nIn)
          /\ nCoder.size <= 3 => (nEnc.ok <=> NumInRangeInt(nCoder, nIn))
          /\ ~nEnc.ok => nEnc.err.code = INVALID_ARGUMENT /\ nEnc.err.reason = "value out-of-bounds"
          /\ ~nEnc.ok => nEnc.w = NewWriter
    /\ (nPc = "decoded" /\ nWord = Writer_data(nEnc.w)) =>
          nDec.ok /\ BigNumber_from(nDec.v) = nValue

\* 2^(N-1) was refused by int256
C2_Witness ==
    /\ nPc = "encoded"
    /\ nCoder.signed /\ nCoder.size = 32
    /\ nIn = [e |-> 255, d |-> 0, s |-> 1]
    /\ ~nEnc.ok

\* bit i (0 = least significant) of a 32-byte word
WordBit(w, i) == ((w[wordSize - (i \div 8)] \div (2 ^ (i % 8))) % 2) = 1

\* bit i of 2^256 - (2^e + d)
TwosBit(in, i) ==
    IF in.d = 0 THEN i >= in.e
    ELSE IF in.d = 1 THEN i # in.e
    ELSE i >= in.e \/ i = 0

\* C3: for a signed coder and an in-range negative value v the word written
\* is the 256-bit two's complement 2^256 + v; decoding a word gives the
\* sign-extended value of its low N bits whatever the bits above them, so
\* decode(encode(v)) = v for negative and non-negative v.
C3_TwosComplement ==
    /\ (nPc # "ready" /\ nCoder.signed /\ nEnc.ok) =>
          /\ Len(Writer_data(nEnc.w)) = wordSize
          /\ nValue.neg =>
                \A i \in 0..255 : WordBit(Writer_data(nEnc.w), i) <=> TwosBit(nIn, i)
          /\ ~nValue.neg => BigNumber_fromBytes(Writer_data(nEnc.w)) = nValue
    /\ (nPc = "decoded" /\ nCoder.signed) =>
          /\ nDec.ok
          /\ BigNumber_from(nDec.v) = nValue
          /\ nDec.v.js <=> nCoder.size <= 6
          /\ nDec.r.offset = wordSize

\* -2^(N-1) of int64 was decoded from a word whose high bytes are not 0xff
C3_Witness ==
    /\ nPc = "decoded"
    /\ nCoder.signed /\ nCoder.size = 8
    /\ nIn = [e |-> 63, d |-> 0, s |-> -1]
    /\ nWord # Writer_data(nEnc.w)
    /\ nDec.ok /\ nDec.v.neg

\* ------------------------------------------------------------------------
\* AbiCoder.encode followed by AbiCoder.decode, and pack on its own
\* ------------------------------------------------------------------------
MaxTypes == 2

Num(n) == VNum(BigNumber_fromNumber(n), FALSE)
Str(units) == VString(units)
MinInt256 == VNum(toBigNumber(TRUE, <<128>> \o Zeros(31)), FALSE)
Address1 == VAddress([i \in 1..20 |-> (16 * i + 1) % 256])

Uint8 == PLeaf("uint", 8, "")
StringT == PLeaf("string", 0, "")
PairT == PTuple(<<PLeaf("uint", 8, "a"), PLeaf("string", 0, "b")>>, "")

\* the types of a call with one value for each: every coder kind, static
\* and dynamic, nested both ways; 0xD83D 0xDE00 is a surrogate pair
TypedValues ==
    { [t |-> Uint8, v |-> Num(0)],
      [t |-> Uint8, v |-> Num(255)],
      [t |-> Uint8, v |-> Num(256)],
      [t |-> PLeaf("int", 256, ""), v |-> MinInt256],
      [t |-> PLeaf("int", 16, ""), v |-> Num(-2)],
      [t |-> PLeaf("address", 0, ""), v |-> Address1],
      [t |-> PLeaf("bool", 0, ""), v |-> VBool(TRUE)],
      [t |-> PLeaf("bytesN", 2, ""), v |-> VHex(<<1, 2>>)],
      [t |-> StringT, v |-> Str(<<>>)],
      [t |-> StringT, v |-> Str(<<97, 233, 55357, 56832>>)],
      [t |-> StringT, v |-> Str(<<55357>>)],
      [t |-> PLeaf("bytes", 0, ""), v |-> VHex([i \in 1..33 |-> i])],
      [t |-> PLeaf("", 0, ""), v |-> VNull],
      [t |-> PArray(Uint8, -1, ""), v |-> VList(<<>>)],
      [t |-> PArray(Uint8, -1, ""), v |-> VList(<<Num(1), Num(2)>>)],
      [t |-> PArray(Uint8, 2, ""), v |-> VList(<<Num(1), Num(2)>>)],
      [t |-> PArray(Uint8, 2, ""), v |-> VList(<<Num(1)>>)],
      [t |-> PArray(StringT, -1, ""), v |-> VList(<<Str(<<97>>), Str(<<98, 99>>)>>)],
      [t |-> PArray(StringT, 2, ""), v |-> VList(<<Str(<<97>>), Str(<<>>)>>)],
      [t |-> PairT, v |-> VList(<<Num(7), Str(<<97>>)>>)],
      [t |-> PArray(PairT, -1, ""), v |-> VList(<<VList(<<Num(7), Str(<<97>>)>>)>>)],
      [t |-> PArray(PArray(Uint8, 0, ""), -1, ""), v |-> VList(<<>>)],
      [t |-> PArray(PArray(Uint8, 0, ""), -1, ""), v |-> VList(<<VList(<<>>), VList(<<>>)>>)],
      [t |-> PArray(PArray(Uint8, -1, ""), -1, ""), v |-> VList(<<VList(<<Num(1)>>), VList(<<>>)>>)] }

\* a destination writer that already holds a word (ArrayCoder.encode packs
\* after the count) or nothing (TupleCoder.encode)
Destinations == {NewWriter, Writer_writeData(NewWriter, Ones(wordSize))}

CodecInit ==
    /\ cPc = "start"
    /\ \E n \in 0..MaxTypes : \E tv \in [1..n -> TypedValues] :
          /\ cTypes = [i \in 1..n |-> tv[i].t]
          /\ cValues = [i \in 1..n |-> tv[i].v]
    /\ cEnc = None
    /\ cDec = None
    /\ cDest = None
    /\ cPack = None
    /\ nIdle /\ dIdle /\ fIdle /\ iIdle /\ xIdle /\ eIdle /\ pIdle /\ sIdle /\ qIdle

\* abiCoder.encode(types, values)
CodecEncode ==
    /\ cPc = "start"
    /\ cEnc' = AbiCoder_encode(cTypes, cValues)
    /\ cPc' = "encoded"
    /\ UNCHANGED <<cTypes, cValues, cDec, cDest, cPack, nVars, dVars, fVars, iVars, xVars, eVars, pVars, sVars, qVars>>

\* abiCoder.decode(types, data) on the bytes encode returned
CodecDecode ==
    /\ cPc = "encoded"
    /\ cEnc.ok
    /\ cDec' = AbiCoder_decode(cTypes, cEnc.v, FALSE)
    /\ cPc' = "decoded"
    /\ UNCHANGED <<cTypes, cValues, cEnc, cDest, cPack, nVars, dVars, fVars, iVars, xVars, eVars, pVars, sVars, qVars>>

\* pack(writer, coders, values) with the coders of the types
CodecPack ==
    /\ cPc = "start"
    /\ \E dest \in Destinations :
          /\ cDest' = dest
          /\ cPack' = pack(dest, AbiCoder_getCoders(cTypes).v, VList(cValues))
    /\ cPc' = "packed"
    /\ UNCHANGED <<cTypes, cValues, cEnc, cDec, nVars, dVars, fVars, iVars, xVars, eVars, pVars, sVars, qVars>>

CodecNext == CodecEncode \/ CodecDecode \/ CodecPack

SpecCodec == CodecInit /\ [][CodecNext]_vars

\* a decoded value equals an original one: numbers by their value, arrays
\* and tuples element by element
RECURSIVE ValueEq(_, _)
ValueEq(orig, dec) ==
    CASE orig.k = "list" ->
            /\ dec.k = "result"
            /\ Len(dec.x) = Len(orig.x)
            /\ \A i \in 1..Len(orig.x) : ValueEq(orig.x[i], dec.x[i])
      [] orig.k = "num" -> dec.k = "num" /\ BigNumber_from(dec) = BigNumber_from(orig)
      [] OTHER -> dec = orig

\* C1: decode(types, encode(types, values)) returns a result whose
\* positional elements equal the values, in order, whenever the values are
\* valid for the types (encode accepted them).
C1_RoundTrip ==
    cPc = "decoded" => cDec.ok /\ ValueEq(VList(cValues), cDec.v)

\* the same with the empty type and zero-length arrays left out
RECURSIVE HasZeroWidth(_)
HasZeroWidth(t) ==
    \/ t.baseType = ""
    \/ t.baseType = "array" /\ (t.arrayLength = 0 \/ HasZeroWidth(t.arrayChildren[1]))
    \/ t.baseType = "tuple" /\ \E i \in 1..Len(t.components) : HasZeroWidth(t.components[i])

C1_RoundTripWide ==
    cPc = "decoded" /\ (\A i \in 1..Len(cTypes) : ~HasZeroWidth(cTypes[i]))
        => cDec.ok /\ ValueEq(VList(cValues), cDec.v)

\* pack: the bytes value index encodes to on its own
packEncoded(coders, values, index) == Writer_data(Coder_encode(coders[index], NewWriter, values[index]).w)

\* the bytes value index takes in the head
packHeadSize(coders, values, index) ==
    IF coders[index].dynamic THEN wordSize ELSE Len(packEncoded(coders, values, index))

RECURSIVE packHeadLength(_, _, _)
packHeadLength(coders, values, n) ==
    IF n = 0 THEN 0 ELSE packHeadLength(coders, values, n - 1) + packHeadSize(coders, values, n)

\* the length of the tail once the first n values are encoded
RECURSIVE packTailLength(_, _, _)
packTailLength(coders, values, n) ==
    IF n = 0 THEN 0
    ELSE packTailLength(coders, values, n - 1)
            + (IF coders[n].dynamic THEN Len(packEncoded(coders, values, n)) ELSE 0)

\* C4: pack appends the head then the tail to the destination: a static
\* value sits encoded in place in the head, a dynamic value has one head
\* word holding headLength + tailOffset and its encoding at tailOffset in
\* the tail.
C4_HeadTail ==
    cPc = "packed" /\ cPack.ok =>
        LET coders == AbiCoder_getCoders(cTypes).v
            n == Len(coders)
            before == Writer_data(cDest)
            out == Writer_data(cPack.w)
            body == Slice(out, Len(before), Len(out))
            headLength == packHeadLength(coders, cValues, n)
        IN  /\ Slice(out, 0, Len(before)) = before
            /\ Len(body) = headLength + packTailLength(coders, cValues, n)
            /\ \A i \in 1..n :
                  LET at == packHeadLength(coders, cValues, i - 1)
                      tailOffset == packTailLength(coders, cValues, i - 1)
                      enc == packEncoded(coders, cValues, i)
                  IN  IF coders[i].dynamic
                      THEN /\ Slice(body, at, at + wordSize) = PadLeft(IntToMag(headLength + tailOffset), wordSize)
                           /\ Slice(body, headLength + tailOffset, headLength + tailOffset + Len(enc)) = enc
                      ELSE Slice(body, at, at + Len(enc)) = enc

\* two dynamic values around a static one, packed after a word already written
C4_Witness ==
    /\ cPc = "packed" /\ cPack.ok
    /\ Len(cTypes) = 2
    /\ cTypes[1].baseType = "string" /\ cTypes[2].baseType = "array"
    /\ Len(cValues[1].x) = 4
    /\ cDest # NewWriter

\* ------------------------------------------------------------------------
\* AbiCoder.decode of data as received, and reads of the Result
\* ------------------------------------------------------------------------
MaxWords == 3

Word(n) == PadLeft(IntToMag(n), wordSize)

\* words that are offsets, lengths, values out of range for an address or
\* for toNumber (2^64), invalid UTF-8 (0xff..) and text ("a" padded right)
DataWords ==
    { Word(0), Word(1), Word(32), Word(64),
      PadLeft(<<1>> \o Zeros(8), wordSize), Ones(wordSize), <<97>> \o Zeros(wordSize - 1) }

DecodeTypes ==
    { <<PLeaf("uint", 8, "a")>>,
      <<PLeaf("string", 0, "s")>>,
      <<PLeaf("string", 0, "s"), PLeaf("uint", 8, "a")>>,
      <<PLeaf("uint", 8, "a"), PLeaf("string", 0, "s")>>,
      <<PTuple(<<PLeaf("string", 0, "s"), PLeaf("uint", 8, "a")>>, "t")>>,
      <<PArray(Uint8, -1, "xs")>>,
      <<PArray(StringT, -1, "ss"), PLeaf("bool", 0, "length")>>,
      <<PLeaf("address", 0, "who"), PLeaf("bool", 0, "ok")>>,
      <<PLeaf("", 0, "nothing"), PLeaf("uint", 8, "a")>>,
      <<PArray(Uint8, 2, "p"), PLeaf("uint", 8, "p")>>,
      <<PTuple(<<PArray(PLeaf("address", 0, ""), -1, "xs")>>, "t"), PLeaf("address", 0, "push")>> }

\* result[index]: an element that is an error is a getter throwing it
Result_get(res, index) ==
    IF index < Len(res.x)
    THEN IF res.x[index + 1].k = "error" THEN Err(res.x[index + 1]) ELSE Ok(res.x[index + 1])
    ELSE Ok(VUndefined)

\* result[name]
Result_getNamed(res, name) ==
    IF \E j \in 1..Len(res.named) : res.named[j].name = name
    THEN LET j == CHOOSE j \in 1..Len(res.named) : res.named[j].name = name
         IN  IF res.named[j].v.k = "error" THEN Err(res.named[j].v) ELSE Ok(res.named[j].v)
    ELSE IF name = "length" THEN Ok(VNum(BigNumber_fromNumber(Len(res.x)), TRUE))
    ELSE IF name \in ArrayMembers THEN Ok([k |-> "builtin"])
    ELSE Ok(VUndefined)

DecodeInit ==
    /\ dPc = "start"
    /\ dTypes \in DecodeTypes
    /\ \E n \in 0..MaxWords : dData \in [1..n -> DataWords]
    /\ dRes = None
    /\ dRead = None
    /\ nIdle /\ cIdle /\ fIdle /\ iIdle /\ xIdle /\ eIdle /\ pIdle /\ sIdle /\ qIdle

\* abiCoder.decode(types, data)
DecodeData ==
    /\ dPc = "start"
    /\ dRes' = AbiCoder_decode(dTypes, concat(dData), FALSE)
    /\ dPc' = "decoded"
    /\ UNCHANGED <<dTypes, dData, dRead, nVars, cVars, fVars, iVars, xVars, eVars, pVars, sVars, qVars>>

\* result[index] for the index of a field
DecodeReadIndex ==
    /\ dPc = "decoded"
    /\ dRes.ok
    /\ \E index \in 0..(Len(dTypes) - 1) :
          dRead' = [by |-> "index", index |-> index, out |-> Result_get(dRes.v, index)]
    /\ dPc' = "read"
    /\ UNCHANGED <<dTypes, dData, dRes, nVars, cVars, fVars, iVars, xVars, eVars, pVars, sVars, qVars>>

\* result[name] for the name of a field
DecodeReadName ==
    /\ dPc = "decoded"
    /\ dRes.ok
    /\ \E index \in 1..Len(dTypes) :
          dRead' = [by |-> "name", index |-> index - 1,
                    out |-> Result_getNamed(dRes.v, dTypes[index].name)]
    /\ dPc' = "read"
    /\ UNCHANGED <<dTypes, dData, dRes, nVars, cVars, fVars, iVars, xVars, eVars, pVars, sVars, qVars>>

DecodeNext == DecodeData \/ DecodeReadIndex \/ DecodeReadName

SpecDecode == DecodeInit /\ [][DecodeNext]_vars

\* C5: a failure other than buffer-overrun in one field (obtaining a
\* dynamic field's offset included) never aborts the decode: a result is
\* returned, and the captured error is raised when, and only when, the
\* failed field is read by index.
C5_FieldErrorsDeferred ==
    /\ dPc \in {"decoded", "read"} /\ ~dRes.ovr => dRes.ok
    /\ dPc = "read" /\ dRead.by = "index" /\ dRead.index < Len(dRes.v.x) =>
          (~dRead.out.ok <=> dRes.v.x[dRead.index + 1].k = "error")

\* an error of code BUFFER_OVERRUN kept as a value, at any depth
RECURSIVE HoldsOverrun(_)
HoldsOverrun(value) ==
    CASE value.k = "error" -> value.code = BUFFER_OVERRUN
      [] value.k = "result" -> \E i \in 1..Len(value.x) : HoldsOverrun(value.x[i])
      [] OTHER -> FALSE

\* C6: once a buffer-overrun error is raised while decoding a field, at any
\* depth, AbiCoder.decode throws a buffer-overrun; no result holds one as a
\* deferred error and no read of a field raises one.
C6_OverrunPropagates ==
    /\ dPc \in {"decoded", "read"} /\ dRes.ovr => ~dRes.ok /\ dRes.err.code = BUFFER_OVERRUN
    /\ dPc \in {"decoded", "read"} /\ dRes.ok => ~HoldsOverrun(dRes.v)
    /\ dPc = "read" /\ ~dRead.out.ok => dRead.out.err.code # BUFFER_OVERRUN

\* the string inside the tuple is read past the end of the data: the
\* overrun crosses the tuple's unpack and the outer one
C6_Witness ==
    /\ dPc = "decoded"
    /\ dTypes[1].baseType = "tuple"
    /\ Len(dData) = 3 /\ dData[1] = Word(32) /\ dData[2] = Word(64)
    /\ dRes.ovr /\ ~dRes.ok /\ dRes.err.code = BUFFER_OVERRUN

\* ------------------------------------------------------------------------
\* ArrayCoder.decode: the count of a dynamic array
\* ------------------------------------------------------------------------
\* the first field is a dynamic array: its offset is the first word
arrayOffset == BigNumber_fromBytes(dData[1])

\* the offset leads to a word of the data, the count of the array
countReadable ==
    /\ dPc = "decoded"
    /\ dTypes[1].baseType = "array" /\ dTypes[1].arrayLength = -1
    /\ Len(dData) >= 1
    /\ ~toNumberFaults(arrayOffset)
    /\ toNumber(arrayOffset) + wordSize <= Len(dData) * wordSize

claimedCount ==
    BigNumber_fromBytes(Slice(concat(dData), toNumber(arrayOffset), toNumber(arrayOffset) + wordSize))

\* the bytes from the count word to the end of the data, and those after it
bytesFromCount == Len(dData) * wordSize - toNumber(arrayOffset)
bytesAfterCount == bytesFromCount - wordSize

insufficientDataLength == makeError("insufficient data length", BUFFER_OVERRUN)

rejectedEarly == ~dRes.ok /\ dRes.err = insufficientDataLength

\* C20 as stated: a count that needs more than the bytes left after the
\* count word, at 32 bytes an element, is rejected with the buffer-overrun
\* error of the count check, before any element coder is made.
C20_CountChecked ==
    countReadable /\ (toNumberFaults(claimedCount) \/ toNumber(claimedCount) * 32 > bytesAfterCount)
        => rejectedEarly

\* C20: the count is compared with the bytes from the count word on.  A
\* count that needs more than those is rejected by the count check; one
\* that fits them but not the bytes after the count word passes the check
\* and, for elements of one word, fails in the read of an element, a
\* buffer-overrun all the same; a count no number can hold is a numeric
\* fault kept for the field, not a buffer-overrun.
C20_CountCheckedRoughly ==
    countReadable =>
        IF toNumberFaults(claimedCount)
        THEN /\ ~rejectedEarly
             /\ dRes.ok => dRes.v.x[1].k = "error" /\ dRes.v.x[1].code = NUMERIC_FAULT
        ELSE IF toNumber(claimedCount) * 32 > bytesFromCount THEN rejectedEarly
        ELSE /\ ~rejectedEarly
             /\ toNumber(claimedCount) * 32 > bytesAfterCount /\ dTypes[1].arrayChildren[1] = Uint8
                    => ~dRes.ok /\ dRes.err = makeError("data out-of-bounds", BUFFER_OVERRUN)

\* a count of 64 with one word after it is refused by the count check
C20_Witness ==
    /\ countReadable
    /\ Len(dData) = 3 /\ dData[1] = Word(32) /\ dData[2] = Word(64)
    /\ rejectedEarly

\* ------------------------------------------------------------------------
\* Interface.decodeFunctionResult
\* ------------------------------------------------------------------------
\* BuiltinErrors, keyed by selector
ErrorSelector == <<8, 195, 121, 160>>
PanicSelector == <<78, 72, 123, 113>>

BuiltinErrors ==
    { [selector |-> ErrorSelector, signature |-> "Error(string)", name |-> "Error",
       inputs |-> <<StringT>>, reason |-> TRUE],
      [selector |-> PanicSelector, signature |-> "Panic(uint256)", name |-> "Panic",
       inputs |-> <<PLeaf("uint", 256, "")>>, reason |-> FALSE] }

\* The receiver (this) of the call.  decodeFunctionResult is declared
\* static, so Interface.decodeFunctionResult(...) runs with the class as
\* this, and the class has no _abiCoder, getFunction or getError; the body
\* can also be applied to an Interface object, which has them.
InterfaceClass == "Interface"
InterfaceObject == "interface"

\* the errors of the Interface object: one error fragment and its selector
ObjectErrors ==
    { [selector |-> <<145, 188, 197, 100>>, signature |-> "Insufficient(uint256)", name |-> "Insufficient",
       inputs |-> <<PLeaf("uint", 256, "needed")>>] }

\* Interface.getError(selector) on the object
Interface_getErrorBySelector(selector) ==
    IF \E e \in ObjectErrors : e.selector = selector
    THEN Ok(CHOOSE e \in ObjectErrors : e.selector = selector)
    ELSE Err(makeError("no matching error", INVALID_ARGUMENT))

\* logger.throwError('call revert exception', CALL_EXCEPTION, params):
\* makeError copies params onto the error, reason included
CallException(method, errorArgs, errorName, errorSignature, reason) ==
    [k |-> "error", code |-> CALL_EXCEPTION, reason |-> reason, method |-> method,
     errorArgs |-> errorArgs, errorName |-> errorName, errorSignature |-> errorSignature]

\* case 4 of the switch, the selector being a builtin's
decodeFunctionResult_builtin(method, builtin, bytes) ==
    The({ IF ~errorArgs.ok THEN Err(errorArgs.err)
          ELSE IF builtin.reason
          THEN The({ IF ~reason.ok THEN Err(reason.err)
                     ELSE Err(CallException(method, errorArgs.v, builtin.name, builtin.signature, reason.v)) :
                     reason \in {Result_get(errorArgs.v, 0)} })
          ELSE Err(CallException(method, errorArgs.v, builtin.name, builtin.signature, None)) :
          errorArgs \in {AbiCoder_decode(builtin.inputs, Slice(bytes, 4, Len(bytes)), FALSE)} })

\* case 4 of the switch, any other selector: whatever getError or decode
\* throws is caught and logged
decodeFunctionResult_custom(method, selector, bytes) ==
    The({ IF ~error.ok THEN Err(CallException(method, None, None, None, None))
          ELSE The({ IF errorArgs.ok
                     THEN Err(CallException(method, errorArgs.v, error.v.name, error.v.signature, None))
                     ELSE Err(CallException(method, None, None, None, None)) :
                     errorArgs \in {AbiCoder_decode(error.v.inputs, Slice(bytes, 4, Len(bytes)), FALSE)} }) :
          error \in {Interface_getErrorBySelector(selector)} })

\* Interface.decodeFunctionResult with receiver as this, a FunctionFragment
\* and the bytes arrayify(data)
decodeFunctionResult(receiver, functionFragment, bytes) ==
    IF receiver = InterfaceClass THEN Err(TypeErrorOfUndefined)
    ELSE LET method == functionFragment.signature
             rest == Len(bytes) % wordSize
         IN  IF rest = 0
             THEN The({ IF d.ok THEN Ok(d.v) ELSE Err(CallException(method, None, None, None, None)) :
                        d \in {AbiCoder_decode(functionFragment.outputs, bytes, FALSE)} })
             ELSE IF rest = 4
             THEN LET selector == Slice(bytes, 0, 4)
                  IN  IF \E b \in BuiltinErrors : b.selector = selector
                      THEN decodeFunctionResult_builtin(method,
                               CHOOSE b \in BuiltinErrors : b.selector = selector, bytes)
                      ELSE decodeFunctionResult_custom(method, selector, bytes)
             ELSE Err(CallException(method, None, None, None, None))

\* the function fragments results are decoded for
ResultFragments ==
    { [name |-> "symbol", signature |-> "symbol()", outputs |-> <<StringT>>],
      [name |-> "totalSupply", signature |-> "totalSupply()", outputs |-> <<PLeaf("uint", 256, "")>>],
      [name |-> "poke", signature |-> "poke()", outputs |-> <<>>] }

\* the first bytes of a payload: nothing, a selector, or a stray run
ResultPrefixes ==
    { <<>>, ErrorSelector, PanicSelector, <<145, 188, 197, 100>>, <<222, 173, 190, 239>>, <<8, 195, 121>> }

ResultInit ==
    /\ fPc = "start"
    /\ fReceiver \in {InterfaceClass, InterfaceObject}
    /\ fFragment \in ResultFragments
    /\ \E prefix \in ResultPrefixes, n \in 0..MaxWords : \E words \in [1..n -> DataWords] :
          fData = prefix \o concat(words)
    /\ fRes = None
    /\ nIdle /\ cIdle /\ dIdle /\ iIdle /\ xIdle /\ eIdle /\ pIdle /\ sIdle /\ qIdle

\* decodeFunctionResult(functionFragment, data)
ResultDecode ==
    /\ fPc = "start"
    /\ fRes' = decodeFunctionResult(fReceiver, fFragment, fData)
    /\ fPc' = "done"
    /\ UNCHANGED <<fReceiver, fFragment, fData, nVars, cVars, dVars, iVars, xVars, eVars, pVars, sVars, qVars>>

ResultNext == ResultDecode

SpecResult == ResultInit /\ [][ResultNext]_vars

\* C7: decodeFunctionResult returns the decoded outputs of a payload whose
\* length is a multiple of the word size, or raises an error of code
\* CALL_EXCEPTION, and nothing else.
C7_ReturnOrCallException ==
    fPc = "done" =>
        \/ fRes.ok /\ Len(fData) % wordSize = 0
        \/ ~fRes.ok /\ fRes.err.code = CALL_EXCEPTION

\* the same for the body applied to an Interface object and payloads that
\* do not start with a builtin selector
C7_ObjectNoBuiltin ==
    fPc = "done" /\ fReceiver = InterfaceObject
                 /\ ~(Len(fData) % wordSize = 4 /\ Slice(fData, 0, 4) \in {ErrorSelector, PanicSelector}) =>
        \/ fRes.ok /\ Len(fData) % wordSize = 0
        \/ ~fRes.ok /\ fRes.err.code = CALL_EXCEPTION

\* the ABI encoding of the one string "a", and of the number 1
EncodedA == Word(32) \o Word(1) \o (<<97>> \o Zeros(wordSize - 1))

\* C8: Error(string) followed by an encoded string s raises a call
\* exception with reason s and errorSignature Error(string); Panic(uint256)
\* followed by a code raises one with errorSignature Panic(uint256) and the
\* code in errorArgs; a word-multiple payload that decodes against the
\* outputs is returned (0x00..01 against [uint256] is 1).
C8_Classification ==
    /\ fPc = "done" /\ fData = ErrorSelector \o EncodedA =>
          /\ ~fRes.ok /\ fRes.err.code = CALL_EXCEPTION
          /\ fRes.err.reason = VString(<<97>>)
          /\ fRes.err.errorSignature = "Error(string)"
    /\ fPc = "done" /\ fData = PanicSelector \o Word(1) =>
          /\ ~fRes.ok /\ fRes.err.code = CALL_EXCEPTION
          /\ fRes.err.errorSignature = "Panic(uint256)"
          /\ BigNumber_from(fRes.err.errorArgs.x[1]) = One
    /\ fPc = "done" /\ fData = Word(1) /\ fFragment.name = "totalSupply" =>
          /\ fRes.ok
          /\ BigNumber_from(fRes.v.x[1]) = One

\* the same for the body applied to an Interface object
C8_ClassificationOnObject ==
    fReceiver = InterfaceObject => C8_Classification

\* ------------------------------------------------------------------------
\* An Interface built from an ABI, and one lookup on it
\* ------------------------------------------------------------------------
MaxFragments == 2

JsonParam(type, name) ==
    [type |-> type, name |-> name, indexed |-> "undefined", components |-> <<>>, hasComponents |-> FALSE]
JsonTuple(type, components, name) ==
    [type |-> type, name |-> name, indexed |-> "undefined", components |-> components, hasComponents |-> TRUE]

\* the JSON fragments an ABI is made of: overloads of transfer, a
\* repetition of transfer(address,uint256) spelled with uint and with other
\* outputs, and many_msg_babbage(bytes1), whose selector is transfer's
AbiFragments ==
    { JsonFragment("function", <<"t", "r", "a", "n", "s", "f", "e", "r">>,
          <<JsonParam(<<"a", "d", "d", "r", "e", "s", "s">>, <<"t", "o">>), JsonParam(<<"u", "i", "n", "t", "2", "5", "6">>, <<"a", "m", "o", "u", "n", "t">>)>>,
          <<JsonParam(<<"b", "o", "o", "l">>, <<>>)>>, "undefined", "undefined", "nonpayable", FALSE, <<>>),
      JsonFragment("function", <<"t", "r", "a", "n", "s", "f", "e", "r">>,
          <<JsonParam(<<"a", "d", "d", "r", "e", "s", "s">>, <<>>), JsonParam(<<"u", "i", "n", "t", "2", "5", "6">>, <<>>), JsonParam(<<"b", "y", "t", "e", "s">>, <<>>)>>,
          <<>>, "undefined", "undefined", "nonpayable", FALSE, <<>>),
      JsonFragment("function", <<"m", "a", "n", "y", "_", "m", "s", "g", "_", "b", "a", "b", "b", "a", "g", "e">>,
          <<JsonParam(<<"b", "y", "t", "e", "s", "1">>, <<>>)>>,
          <<>>, "undefined", "undefined", "nonpayable", FALSE, <<>>),
      JsonFragment("function", <<"b", "a", "l", "a", "n", "c", "e", "O", "f">>,
          <<JsonParam(<<"a", "d", "d", "r", "e", "s", "s">>, <<>>)>>,
          <<JsonParam(<<"u", "i", "n", "t">>, <<>>)>>, "undefined", "undefined", "view", FALSE, <<>>),
      JsonFragment("function", <<"t", "r", "a", "n", "s", "f", "e", "r">>,
          <<JsonParam(<<"a", "d", "d", "r", "e", "s", "s">>, <<>>), JsonParam(<<"u", "i", "n", "t">>, <<>>)>>,
          <<JsonParam(<<"u", "i", "n", "t", "8">>, <<>>)>>, "undefined", "undefined", "view", FALSE, <<>>),
      JsonFragment("function", <<"i", "n", "f", "o">>,
          <<JsonTuple(<<"t", "u", "p", "l", "e", "[", "]">>, <<JsonParam(<<"u", "i", "n", "t", "8">>, <<>>), JsonParam(<<"s", "t", "r", "i", "n", "g">>, <<>>)>>, <<>>)>>,
          <<>>, "undefined", "undefined", "view", FALSE, <<>>),
      JsonFragment("event", <<"T", "r", "a", "n", "s", "f", "e", "r">>,
          <<[JsonParam(<<"a", "d", "d", "r", "e", "s", "s">>, <<"f", "r", "o", "m">>) EXCEPT !.indexed = "true"], [JsonParam(<<"a", "d", "d", "r", "e", "s", "s">>, <<"t", "o">>) EXCEPT !.indexed = "true"], JsonParam(<<"u", "i", "n", "t", "2", "5", "6">>, <<"v", "a", "l", "u", "e">>)>>,
          <<>>, "undefined", "undefined", "undefined", FALSE, <<>>),
      JsonFragment("event", <<"T", "r", "a", "n", "s", "f", "e", "r">>,
          <<JsonParam(<<"a", "d", "d", "r", "e", "s", "s">>, <<>>), JsonParam(<<"u", "i", "n", "t", "2", "5", "6">>, <<>>)>>,
          <<>>, "undefined", "undefined", "undefined", FALSE, <<>>),
      JsonFragment("error", <<"I", "n", "s", "u", "f", "f", "i", "c", "i", "e", "n", "t">>,
          <<JsonParam(<<"u", "i", "n", "t", "2", "5", "6">>, <<>>)>>,
          <<>>, "undefined", "undefined", "undefined", FALSE, <<>>),
      JsonFragment("error", <<"I", "n", "s", "u", "f", "f", "i", "c", "i", "e", "n", "t">>,
          <<JsonParam(<<"u", "i", "n", "t", "2", "5", "6">>, <<>>), JsonParam(<<"u", "i", "n", "t", "2", "5", "6">>, <<>>)>>,
          <<>>, "undefined", "undefined", "undefined", FALSE, <<>>) }

\* names, signatures and selectors asked of getFunction
FunctionKeys ==
    { <<"t", "r", "a", "n", "s", "f", "e", "r">>,
      <<" ", "t", "r", "a", "n", "s", "f", "e", "r", " ">>,
      <<"b", "a", "l", "a", "n", "c", "e", "O", "f">>,
      <<"m", "a", "n", "y", "_", "m", "s", "g", "_", "b", "a", "b", "b", "a", "g", "e">>,
      <<"i", "n", "f", "o">>,
      <<"m", "i", "s", "s", "i", "n", "g">>,
      <<"t", "r", "a", "n", "s", "f", "e", "r", "(", "a", "d", "d", "r", "e", "s", "s", ",", "u", "i", "n", "t", "2", "5", "6", ")">>,
      <<"t", "r", "a", "n", "s", "f", "e", "r", "(", "a", "d", "d", "r", "e", "s", "s", ",", "u", "i", "n", "t", "2", "5", "6", ",", "b", "y", "t", "e", "s", ")">>,
      <<"m", "a", "n", "y", "_", "m", "s", "g", "_", "b", "a", "b", "b", "a", "g", "e", "(", "b", "y", "t", "e", "s", "1", ")">>,
      <<"b", "a", "l", "a", "n", "c", "e", "O", "f", "(", "a", "d", "d", "r", "e", "s", "s", ")">>,
      <<"i", "n", "f", "o", "(", "(", "u", "i", "n", "t", "8", ",", "s", "t", "r", "i", "n", "g", ")", "[", "]", ")">>,
      <<"t", "r", "a", "n", "s", "f", "e", "r", "(", "a", "d", "d", "r", "e", "s", "s", " ", "t", "o", ",", " ", "u", "i", "n", "t", " ", "a", "m", "o", "u", "n", "t", ")">>,
      <<"b", "a", "l", "a", "n", "c", "e", "O", "f", "(", "a", "d", "d", "r", "e", "s", "s", ")", " ", "v", "i", "e", "w", " ", "r", "e", "t", "u", "r", "n", "s", " ", "(", "u", "i", "n", "t", "2", "5", "6", ")">>,
      <<"t", "r", "a", "n", "s", "f", "e", "r", "(", "a", "d", "d", "r", "e", "s", "s">>,
      <<"0", "x", "a", "9", "0", "5", "9", "c", "b", "b">>,
      <<"0", "x", "b", "e", "4", "5", "f", "d", "6", "2">>,
      <<"0", "x", "7", "0", "a", "0", "8", "2", "3", "1">>,
      <<"0", "x", "8", "7", "a", "4", "0", "5", "8", "0">>,
      <<"0", "x", "A", "9", "0", "5", "9", "C", "B", "B">>,
      <<"0", "x", "1", "2", "3", "4", "5", "6", "7", "8">> }

\* names, signatures and topics asked of getEvent
EventKeys ==
    { <<"T", "r", "a", "n", "s", "f", "e", "r">>,
      <<"A", "p", "p", "r", "o", "v", "a", "l">>,
      <<"T", "r", "a", "n", "s", "f", "e", "r", "(", "a", "d", "d", "r", "e", "s", "s", ",", "a", "d", "d", "r", "e", "s", "s", ",", "u", "i", "n", "t", "2", "5", "6", ")">>,
      <<"T", "r", "a", "n", "s", "f", "e", "r", "(", "a", "d", "d", "r", "e", "s", "s", " ", "i", "n", "d", "e", "x", "e", "d", " ", "f", "r", "o", "m", ",", " ", "a", "d", "d", "r", "e", "s", "s", " ", "i", "n", "d", "e", "x", "e", "d", " ", "t", "o", ",", " ", "u", "i", "n", "t", "2", "5", "6", " ", "v", "a", "l", "u", "e", ")">>,
      <<"T", "r", "a", "n", "s", "f", "e", "r", "(", "a", "d", "d", "r", "e", "s", "s", ",", "u", "i", "n", "t", "2", "5", "6", ")">>,
      <<"0", "x", "d", "d", "f", "2", "5", "2", "a", "d", "1", "b", "e", "2", "c", "8", "9", "b", "6", "9", "c", "2", "b", "0", "6", "8", "f", "c", "3", "7", "8", "d", "a", "a", "9", "5", "2", "b", "a", "7", "f", "1", "6", "3", "c", "4", "a", "1", "1", "6", "2", "8", "f", "5", "5", "a", "4", "d", "f", "5", "2", "3", "b", "3", "e", "f">>,
      <<"0", "x", "D", "D", "F", "2", "5", "2", "A", "D", "1", "B", "E", "2", "C", "8", "9", "B", "6", "9", "C", "2", "B", "0", "6", "8", "F", "C", "3", "7", "8", "D", "A", "A", "9", "5", "2", "B", "A", "7", "F", "1", "6", "3", "C", "4", "A", "1", "1", "6", "2", "8", "F", "5", "5", "A", "4", "D", "F", "5", "2", "3", "B", "3", "E", "F">>,
      <<"0", "x", "6", "9", "c", "a", "0", "2", "d", "d", "4", "e", "d", "d", "7", "b", "f", "0", "a", "4", "a", "b", "b", "9", "e", "d", "3", "b", "7", "a", "f", "3", "f", "1", "4", "7", "7", "8", "d", "b", "5", "d", "6", "1", "9", "2", "1", "c", "7", "d", "c", "7", "c", "d", "5", "4", "5", "2", "6", "6", "3", "2", "6", "d", "e", "2">> }

\* names, signatures and selectors asked of getError
ErrorKeys ==
    { <<"I", "n", "s", "u", "f", "f", "i", "c", "i", "e", "n", "t">>,
      <<"M", "i", "s", "s", "i", "n", "g">>,
      <<"I", "n", "s", "u", "f", "f", "i", "c", "i", "e", "n", "t", "(", "u", "i", "n", "t", "2", "5", "6", ")">>,
      <<"I", "n", "s", "u", "f", "f", "i", "c", "i", "e", "n", "t", "(", "u", "i", "n", "t", "2", "5", "6", " ", "n", "e", "e", "d", "e", "d", ",", " ", "u", "i", "n", "t", "2", "5", "6", " ", "a", "v", "a", "i", "l", "a", "b", "l", "e", ")">>,
      <<"0", "x", "9", "1", "b", "c", "c", "5", "6", "4">>,
      <<"0", "x", "e", "8", "6", "2", "0", "8", "0", "0">> }

LookupInit ==
    /\ iPc = "ready"
    /\ \E n \in 1..MaxFragments : \E abi \in [1..n -> AbiFragments] :
          /\ Interface_new(abi).ok
          /\ iFace = Interface_new(abi).v
    /\ iKey = None
    /\ iRes = None
    /\ nIdle /\ cIdle /\ dIdle /\ fIdle /\ xIdle /\ eIdle /\ pIdle /\ sIdle /\ qIdle

\* interface.getFunction(key)
LookupFunction ==
    /\ iPc = "ready"
    /\ \E key \in FunctionKeys :
          /\ iKey' = [getter |-> "getFunction", text |-> key]
          /\ iRes' = Interface_getFunction(iFace, key)
    /\ iPc' = "done"
    /\ UNCHANGED <<iFace, nVars, cVars, dVars, fVars, xVars, eVars, pVars, sVars, qVars>>

\* interface.getEvent(key)
LookupEvent ==
    /\ iPc = "ready"
    /\ \E key \in EventKeys :
          /\ iKey' = [getter |-> "getEvent", text |-> key]
          /\ iRes' = Interface_getEvent(iFace, key)
    /\ iPc' = "done"
    /\ UNCHANGED <<iFace, nVars, cVars, dVars, fVars, xVars, eVars, pVars, sVars, qVars>>

\* interface.getError(key)
LookupError ==
    /\ iPc = "ready"
    /\ \E key \in ErrorKeys :
          /\ iKey' = [getter |-> "getError", text |-> key]
          /\ iRes' = Interface_getError(iFace, key)
    /\ iPc' = "done"
    /\ UNCHANGED <<iFace, nVars, cVars, dVars, fVars, xVars, eVars, pVars, sVars, qVars>>

LookupNext == LookupFunction \/ LookupEvent \/ LookupError

SpecLookup == LookupInit /\ [][LookupNext]_vars

\* fragment i of the Interface is a function no other function shares its name with
IsOnlyFunctionNamed(iface, i) ==
    /\ iface.fragments[i].type = "function"
    /\ \A j \in 1..Len(iface.fragments) :
          j # i /\ iface.fragments[j].type = "function" => iface.fragments[j].name # iface.fragments[i].name

\* a function before fragment i has its selector
IsSelectorTakenBefore(iface, i) ==
    \E j \in 1..(i - 1) :
        /\ iface.fragments[j].type = "function"
        /\ Interface_getSighashOf(iface.fragments[j]) = Interface_getSighashOf(iface.fragments[i])

\* C9 as stated: for a function f whose name no other function shares,
\* getFunction of f's bare name, of f's canonical signature and of f's
\* selector all return f.
C9_ThreeKeysAlways ==
    iPc = "done" /\ iKey.getter = "getFunction" =>
        \A i \in 1..Len(iFace.fragments) :
            LET f == iFace.fragments[i]
            IN  IsOnlyFunctionNamed(iFace, i)
                /\ iKey.text \in {f.name, Fragment_format(f).v, Interface_getSighashOf(f)}
                    => iRes.ok /\ iRes.v = f

\* C9: for a function f whose name no other function shares, getFunction
\* of f's bare name and of f's canonical signature return f, and
\* getFunction of f's selector returns f when no function placed before f
\* in the Interface has the same selector.
C9_ThreeKeys ==
    iPc = "done" /\ iKey.getter = "getFunction" =>
        \A i \in 1..Len(iFace.fragments) :
            LET f == iFace.fragments[i]
            IN  IsOnlyFunctionNamed(iFace, i)
                /\ iKey.text \in {f.name, Fragment_format(f).v, Interface_getSighashOf(f)}
                /\ (iKey.text = Interface_getSighashOf(f) => ~IsSelectorTakenBefore(iFace, i))
                    => iRes.ok /\ iRes.v = f

\* transfer, placed second after balanceOf, found by its selector
C9_Witness ==
    /\ iPc = "done" /\ iKey.getter = "getFunction"
    /\ Len(iFace.fragments) = 2
    /\ iFace.fragments[1].name = <<"b", "a", "l", "a", "n", "c", "e", "O", "f">>
    /\ iFace.fragments[2].name = <<"t", "r", "a", "n", "s", "f", "e", "r">>
    /\ iKey.text = Interface_getSighashOf(iFace.fragments[2])
    /\ iRes.ok /\ iRes.v = iFace.fragments[2]

\* the category a getter reads: the mapping functions, events or errors
BucketOf(iface, getter) ==
    CASE getter = "getFunction" -> iface.functions
      [] getter = "getEvent" -> iface.events
      [] getter = "getError" -> iface.errors

IsBareName(text) == ~isHexString(text) /\ IndexOf(text, "(") = 0

MaxUint256Value == VNum(MaxUint256, FALSE)

\* functions with values for their inputs; the last call has one value
\* too few
FunctionCalls ==
    { [signature |-> <<"t", "r", "a", "n", "s", "f", "e", "r", "(", "a", "d", "d", "r", "e", "s", "s", " ", "t", "o", ",", " ", "u", "i", "n", "t", "2", "5", "6", " ", "a", "m", "o", "u", "n", "t", ")">>, values |-> <<Address1, Num(5)>>],
      [signature |-> <<"t", "r", "a", "n", "s", "f", "e", "r", "(", "a", "d", "d", "r", "e", "s", "s", " ", "t", "o", ",", " ", "u", "i", "n", "t", "2", "5", "6", " ", "a", "m", "o", "u", "n", "t", ")">>, values |-> <<Address1, MaxUint256Value>>],
      [signature |-> <<"m", "a", "n", "y", "_", "m", "s", "g", "_", "b", "a", "b", "b", "a", "g", "e", "(", "b", "y", "t", "e", "s", "1", ")">>, values |-> <<VHex(<<7>>)>>],
      [signature |-> <<"b", "a", "l", "a", "n", "c", "e", "O", "f", "(", "a", "d", "d", "r", "e", "s", "s", " ", "w", "h", "o", ")">>, values |-> <<Address1>>],
      [signature |-> <<"i", "n", "f", "o", "(", "t", "u", "p", "l", "e", "(", "u", "i", "n", "t", "8", " ", "i", "d", ",", " ", "s", "t", "r", "i", "n", "g", " ", "n", "o", "t", "e", ")", "[", "]", ")">>,
       values |-> <<VList(<<VList(<<Num(7), Str(<<97>>)>>)>>)>>],
      [signature |-> <<"i", "n", "f", "o", "(", "t", "u", "p", "l", "e", "(", "u", "i", "n", "t", "8", " ", "i", "d", ",", " ", "s", "t", "r", "i", "n", "g", " ", "n", "o", "t", "e", ")", "[", "]", ")">>, values |-> <<VList(<<>>)>>],
      [signature |-> <<"f", "(", "u", "i", "n", "t", "8", "[", "0", "]", "[", "]", ")">>, values |-> <<VList(<<>>)>>],
      [signature |-> <<"f", "(", "u", "i", "n", "t", "8", "[", "0", "]", "[", "]", ")">>, values |-> <<VList(<<VList(<<>>), VList(<<>>)>>)>>],
      [signature |-> <<"b", "a", "l", "a", "n", "c", "e", "O", "f", "(", "a", "d", "d", "r", "e", "s", "s", " ", "w", "h", "o", ")">>, values |-> <<>>] }

\* the first bytes of received data: selectors of the functions, a selector
\* cut short, another selector, nothing
DataPrefixes ==
    { <<169, 5, 156, 187>>, <<112, 160, 130, 49>>, <<165, 65, 31, 59>>, <<169, 5, 156>>,
      <<222, 173, 190, 239>>, <<>> }

\* received data as hex strings: lower case, upper case, and odd length
ReceivedData ==
    LET bytes == {prefix \o concat(words) :
                     prefix \in DataPrefixes, words \in UNION {[1..n -> DataWords] : n \in 0..(MaxWords - 1)}}
    IN  {hexlify(b) : b \in bytes}
            \cup {<<"0", "x">> \o <<"A", "9", "0", "5", "9", "C", "B", "B">> \o SubSeq(hexlify(Word(1)), 3, 66),
                  <<"0", "x", "a", "9", "0", "5", "9", "c", "b">>, <<"a", "9", "0", "5", "9", "c", "b", "b">>, <<>>}

FunctionDataInit ==
    /\ xPc = "start"
    /\ \E call \in FunctionCalls :
          /\ xFragment = FunctionFragment_fromString(call.signature).v
          /\ xValues = call.values
    /\ xData = None
    /\ xRes = None
    /\ nIdle /\ cIdle /\ dIdle /\ fIdle /\ iIdle /\ eIdle /\ pIdle /\ sIdle /\ qIdle

\* interface.encodeFunctionData(functionFragment, values)
FunctionDataEncode ==
    /\ xPc = "start"
    /\ xData' = Interface_encodeFunctionData(xFragment, xValues)
    /\ xPc' = "encoded"
    /\ UNCHANGED <<xFragment, xValues, xRes, nVars, cVars, dVars, fVars, iVars, eVars, pVars, sVars, qVars>>

\* data arrives from elsewhere
FunctionDataReceive ==
    /\ xPc = "start"
    /\ \E data \in ReceivedData : xData' = Ok(data)
    /\ xPc' = "received"
    /\ UNCHANGED <<xFragment, xValues, xRes, nVars, cVars, dVars, fVars, iVars, eVars, pVars, sVars, qVars>>

\* interface.decodeFunctionData(functionFragment, data)
FunctionDataDecode ==
    /\ xPc \in {"encoded", "received"}
    /\ xData.ok
    /\ xRes' = Interface_decodeFunctionData(xFragment, xData.v)
    /\ xPc' = IF xPc = "encoded" THEN "decoded" ELSE "answered"
    /\ UNCHANGED <<xFragment, xValues, xData, nVars, cVars, dVars, fVars, iVars, eVars, pVars, sVars, qVars>>

FunctionDataNext == FunctionDataEncode \/ FunctionDataReceive \/ FunctionDataDecode

SpecFunctionData == FunctionDataInit /\ [][FunctionDataNext]_vars

\* the selector of a fragment as bytes, and the bytes of data
SelectorBytes(fragment) == arrayify(Interface_getSighashOf(fragment)).v

\* the selector check on its own: data whose first four bytes are not the
\* selector of the fragment (or that is no byte string) is refused with an
\* invalid-argument error, and data that has them is decoded against the
\* inputs from the fifth byte on
C11_SelectorFirst ==
    xPc \in {"decoded", "answered"} =>
        IF arrayify(xData.v).ok /\ Slice(arrayify(xData.v).v, 0, 4) = SelectorBytes(xFragment)
        THEN xRes = Interface_decodeParams(xFragment.inputs, Slice(arrayify(xData.v).v, 4, Len(arrayify(xData.v).v)))
        ELSE ~xRes.ok /\ xRes.err.code = INVALID_ARGUMENT

\* C11: decodeFunctionData fails with an invalid-argument error when the
\* first 4 bytes of the data are not the selector of the fragment, decodes
\* the remaining bytes against the inputs when they are, and so
\* decodeFunctionData(f, encodeFunctionData(f, values)) returns values.
C11_DecodeFunctionData ==
    /\ C11_SelectorFirst
    /\ xPc = "decoded" => xRes.ok /\ ValueEq(VList(xValues), xRes.v)

\* the round trip with zero-length arrays left out
C11_RoundTripWide ==
    xPc = "decoded" /\ (\A i \in 1..Len(xFragment.inputs) : ~HasZeroWidth(AbiCoder_paramOf(xFragment.inputs[i])))
        => xRes.ok /\ ValueEq(VList(xValues), xRes.v)

\* ------------------------------------------------------------------------
\* Event logs: decodeEventLog of a log as received, encodeFilterTopics of
\* filter values
\* ------------------------------------------------------------------------
\* events with static and hashed indexed inputs in several orders, an
\* anonymous event, and an event with an input of the empty type
EventSignatures ==
    { <<"T", "r", "a", "n", "s", "f", "e", "r", "(", "a", "d", "d", "r", "e", "s", "s", " ", "i", "n", "d", "e", "x", "e", "d", " ", "f", "r", "o", "m", ",", " ", "a", "d", "d", "r", "e", "s", "s", " ", "i", "n", "d", "e", "x", "e", "d", " ", "t", "o", ",", " ", "u", "i", "n", "t", "2", "5", "6", " ", "a", "m", "o", "u", "n", "t", ")">>,
      <<"N", "o", "t", "e", "(", "s", "t", "r", "i", "n", "g", " ", "i", "n", "d", "e", "x", "e", "d", " ", "n", "o", "t", "e", ",", " ", "u", "i", "n", "t", "2", "5", "6", " ", "a", "m", "o", "u", "n", "t", ")">>,
      <<"M", "i", "x", "e", "d", "(", "u", "i", "n", "t", "2", "5", "6", " ", "a", "m", "o", "u", "n", "t", ",", " ", "b", "y", "t", "e", "s", " ", "i", "n", "d", "e", "x", "e", "d", " ", "n", "o", "t", "e", ",", " ", "a", "d", "d", "r", "e", "s", "s", " ", "i", "n", "d", "e", "x", "e", "d", " ", "w", "h", "o", ")">>,
      <<"A", "n", "o", "n", "(", "u", "i", "n", "t", "2", "5", "6", " ", "i", "n", "d", "e", "x", "e", "d", " ", "i", "d", ",", " ", "u", "i", "n", "t", "2", "5", "6", " ", "a", "m", "o", "u", "n", "t", ")", " ", "a", "n", "o", "n", "y", "m", "o", "u", "s">>,
      <<"T", "u", "p", "(", "t", "u", "p", "l", "e", "(", "u", "i", "n", "t", "8", " ", "i", "d", ",", " ", "s", "t", "r", "i", "n", "g", " ", "n", "o", "t", "e", ")", " ", "i", "n", "d", "e", "x", "e", "d", " ", "n", "o", "t", "e", ",", " ", "u", "i", "n", "t", "8", "[", "2", "]", " ", "i", "n", "d", "e", "x", "e", "d", " ", "i", "d", ",", " ", "b", "o", "o", "l", " ", "w", "h", "o", ")">>,
      <<"E", "(", ",", "u", "i", "n", "t", "2", "5", "6", " ", "a", "m", "o", "u", "n", "t", ")">> }

\* String.prototype.toUpperCase of the digits of a hex string
toUpperCase(value) ==
    [i \in 1..Len(value) |->
        CASE i > 2 /\ value[i] = "a" -> "A" [] i > 2 /\ value[i] = "b" -> "B" [] i > 2 /\ value[i] = "c" -> "C"
          [] i > 2 /\ value[i] = "d" -> "D" [] i > 2 /\ value[i] = "e" -> "E" [] i > 2 /\ value[i] = "f" -> "F"
          [] OTHER -> value[i]]

\* the topics of a log for an event: its topic hash in lower and in upper
\* case, the word 1 and the word of all ones; or no topics at all
LogTopics(fragment) ==
    LET words == {Interface_getEventTopicOf(fragment), toUpperCase(Interface_getEventTopicOf(fragment)),
                  hexlify(Word(1)), hexlify(Ones(wordSize))}
    IN  {[given |-> FALSE]}
            \cup {[given |-> TRUE, x |-> x] : x \in UNION {[1..n -> words] : n \in 0..MaxWords}}

\* the data of a log: up to MaxWords - 1 words, and a hex string of odd
\* length
LogData ==
    {hexlify(concat(words)) : words \in UNION {[1..n -> {Word(1), Word(32), Ones(wordSize)}] :
                                                   n \in 0..(MaxWords - 1)}}
        \cup {<<"0", "x", "0", "1", "2">>}

EventInit ==
    /\ ePc = "start"
    /\ \E signature \in EventSignatures : eFragment = EventFragment_fromString(signature).v
    /\ eIn = None
    /\ eOut = None
    /\ nIdle /\ cIdle /\ dIdle /\ fIdle /\ iIdle /\ xIdle /\ pIdle /\ sIdle /\ qIdle

\* interface.decodeEventLog(eventFragment, data, topics)
EventDecodeLog ==
    /\ ePc = "start"
    /\ \E data \in LogData, topics \in LogTopics(eFragment) :
          /\ eIn' = [data |-> data, topics |-> topics]
          /\ eOut' = Interface_decodeEventLog(eFragment, data, topics)
    /\ ePc' = "decoded"
    /\ UNCHANGED <<eFragment, nVars, cVars, dVars, fVars, iVars, xVars, pVars, sVars, qVars>>


\* what the coder of one input decodes from bytes: its value, or the error
\* kept for it
decodedBy(param, bytes, loose) ==
    The({ The({ IF d.ok THEN d.v ELSE FieldError(d.err, coder) :
                d \in {Coder_decode(coder, NewReader(bytes, loose))} }) :
          coder \in {AbiCoder_getCoder(AbiCoder_paramOf(param)).v} })

\* the topic word of indexed input i of a log: the topics in order, after
\* the signature topic of an event that is not anonymous
topicWordOf(fragment, topics, i) ==
    arrayify(topics[(IF fragment.anonymous THEN 0 ELSE 1)
                    + Cardinality({j \in 1..(i - 1) : fragment.inputs[j].indexed = "true"}) + 1]).v

\* the data of non-indexed input i of a log, the inputs before it being of
\* one word each or of the empty type: the data from its word on
dataWordOf(fragment, data, i) ==
    Slice(arrayify(data).v,
          wordSize * Cardinality({j \in 1..(i - 1) : /\ fragment.inputs[j].indexed # "true"
                                                       /\ fragment.inputs[j].type # <<>>}),
          Len(arrayify(data).v))

\* element i of a decoded log is as input i says
elementAsInput(fragment, in, result, i) ==
    IF fragment.inputs[i].indexed = "true"
    THEN in.topics.given =>
            IF isHashedTopic(fragment.inputs[i])
            THEN result.x[i] = Indexed(VHex(topicWordOf(fragment, in.topics.x, i)))
            ELSE result.x[i] = decodedBy(fragment.inputs[i], topicWordOf(fragment, in.topics.x, i), FALSE)
    ELSE result.x[i] = decodedBy(fragment.inputs[i], dataWordOf(fragment, in.data, i), TRUE)

\* C12: a log that decodeEventLog decodes gives one element per input of
\* the event, element i for input i: for an indexed input of type string,
\* bytes, tuple or array the Indexed marker holding the topic word of that
\* input and nothing else, for another indexed input the value its type
\* decodes from its topic word (the topics taken in order after the
\* signature topic of an event that is not anonymous), and for an input
\* that is not indexed the value its type decodes from its place in data.
C12_DecodeEventLog ==
    ePc = "decoded" /\ eOut.ok =>
        /\ Len(eOut.v.x) = Len(eFragment.inputs)
        /\ \A i \in 1..Len(eFragment.inputs) : elementAsInput(eFragment, eIn, eOut.v, i)

\* the same for the events without an input of the empty type
C12_DecodeEventLogWide ==
    ePc = "decoded" /\ eOut.ok /\ (\A i \in 1..Len(eFragment.inputs) : eFragment.inputs[i].type # <<>>) =>
        /\ Len(eOut.v.x) = Len(eFragment.inputs)
        /\ \A i \in 1..Len(eFragment.inputs) : elementAsInput(eFragment, eIn, eOut.v, i)

\* logs of each kind are decoded: hashed and static indexed inputs, an
\* anonymous event, and a log without topics
C12_Reached ==
    /\ ePc = "decoded" /\ eOut.ok /\ eIn.topics.given
    /\ \E i \in 1..Len(eFragment.inputs) : eFragment.inputs[i].indexed = "true" /\ isHashedTopic(eFragment.inputs[i])
    /\ \E i \in 1..Len(eFragment.inputs) : eFragment.inputs[i].indexed = "true" /\ ~isHashedTopic(eFragment.inputs[i])
    /\ \E i \in 1..Len(eFragment.inputs) : eFragment.inputs[i].indexed # "true"

\* filter values an input accepts: a value of its type, or a list of them
\* (either of the values matches)
AcceptedFilterValues(param) ==
    CASE param.type = T_address -> {Address1, VList(<<Address1, Address1>>)}
      [] param.type = T_uint256 -> {Num(5), MaxUint256Value, VList(<<Num(5), Num(0)>>)}
      [] param.type = T_string -> {Str(<<97>>), VList(<<Str(<<97>>), Str(<<>>)>>)}
      [] param.type = T_bytes -> {VHex(<<7>>), VList(<<VHex(<<>>)>>)}
      [] OTHER -> {}

\* filter values an input refuses: a number for an address, -1 as a number
\* and as a BigNumber, any value for a tuple or an array, a boolean
RefusedFilterValues(param) ==
    CASE param.type = T_address -> {Num(5)}
      [] param.type = T_uint256 -> {VNum(toBigNumber(TRUE, <<1>>), TRUE), VNum(toBigNumber(TRUE, <<1>>), FALSE)}
      [] param.type \in {T_string, T_bytes} -> {}
      [] OTHER -> {VBool(TRUE), VList(<<Num(1), Num(2)>>)}

FilterValues(param) == {VNull, VUndefined} \cup AcceptedFilterValues(param) \cup RefusedFilterValues(param)

\* the values of a call of encodeFilterTopics: values for the first inputs
\* of the event, and one value more than it has inputs
FilterCalls(fragment) ==
    LET all == UNION {FilterValues(fragment.inputs[i]) : i \in 1..Len(fragment.inputs)}
        fitting == UNION {{values \in [1..n -> all] : \A i \in 1..n : values[i] \in FilterValues(fragment.inputs[i])} :
                             n \in 0..Len(fragment.inputs)}
    IN  fitting \cup {Append(values, more) :
                         values \in {v \in fitting : Len(v) = Len(fragment.inputs)}, more \in {VNull, Num(5)}}

\* interface.encodeFilterTopics(eventFragment, values)
EventEncodeFilterTopics ==
    /\ ePc = "start"
    /\ \E values \in FilterCalls(eFragment) :
          /\ eIn' = [values |-> values]
          /\ eOut' = Interface_encodeFilterTopics(eFragment, values)
    /\ ePc' = "filtered"
    /\ UNCHANGED <<eFragment, nVars, cVars, dVars, fVars, iVars, xVars, pVars, sVars, qVars>>

EventNext == EventDecodeLog \/ EventEncodeFilterTopics

SpecEvent == EventInit /\ [][EventNext]_vars

isNullish(value) == value.k \in {"null", "undefined"}

\* the values given for inputs that are not indexed, and for indexed inputs
nonIndexedGiven(fragment, values) ==
    {i \in 1..Min(Len(values), Len(fragment.inputs)) : fragment.inputs[i].indexed # "true"}
indexedGiven(fragment, values) ==
    {i \in 1..Min(Len(values), Len(fragment.inputs)) : fragment.inputs[i].indexed = "true"}

\* the topics returned have a slot for the signature of an event that is
\* not anonymous, then at most one slot for each indexed input that has a
\* value, in order, null where the value is null; inputs that are not
\* indexed have none
topicSlots(fragment, values, topics) ==
    LET first == IF fragment.anonymous THEN 0 ELSE 1
        inputOf(n) == CHOOSE i \in indexedGiven(fragment, values) :
                         Cardinality({j \in indexedGiven(fragment, values) : j <= i}) = n - first
    IN  /\ Len(topics) <= first + Cardinality(indexedGiven(fragment, values))
        /\ first = 1 /\ Len(topics) >= 1 => topics[1] = Topic(Interface_getEventTopicOf(fragment))
        /\ \A n \in (first + 1)..Len(topics) : (topics[n].k = "null") = isNullish(values[inputOf(n)])
        /\ \A n \in (Len(topics) + 1)..(first + Cardinality(indexedGiven(fragment, values))) :
              isNullish(values[inputOf(n)])

\* the returned topics do not end with null
noTrailingNull(topics) == topics = <<>> \/ topics[Len(topics)].k # "null"

\* C13 as stated: a call of encodeFilterTopics with a non-null value for an
\* input that is not indexed fails with an invalid-argument error; the
\* topics of a call that returns have no slot for inputs that are not
\* indexed and do not end with null.
C13_FilterTopicsStated ==
    ePc = "filtered" =>
        /\ (\E i \in nonIndexedGiven(eFragment, eIn.values) : ~isNullish(eIn.values[i]))
              => ~eOut.ok /\ eOut.err.code = INVALID_ARGUMENT
        /\ eOut.ok => topicSlots(eFragment, eIn.values, eOut.v) /\ noTrailingNull(eOut.v)

\* the values before value i are taken without an error: there are no more
\* values than inputs, and each earlier value of an indexed input is null
\* or a value that input accepts
takenBefore(fragment, values, i) ==
    /\ Len(values) <= Len(fragment.inputs)
    /\ \A j \in indexedGiven(fragment, values) :
          j < i => isNullish(values[j]) \/ values[j] \in AcceptedFilterValues(fragment.inputs[j])

\* C13: a call of encodeFilterTopics with a non-null value for an input
\* that is not indexed fails: with an invalid-argument error when the
\* values before it are taken without an error, and otherwise with the
\* error of what was refused first (unexpected-argument for more values
\* than inputs).  The topics of a call that returns have no slot for
\* inputs that are not indexed and do not end with null.
C13_FilterTopics ==
    ePc = "filtered" =>
        /\ \A i \in nonIndexedGiven(eFragment, eIn.values) :
              ~isNullish(eIn.values[i]) =>
                  /\ ~eOut.ok
                  /\ takenBefore(eFragment, eIn.values, i) => eOut.err.code = INVALID_ARGUMENT
                  /\ Len(eIn.values) > Len(eFragment.inputs) => eOut.err.code = UNEXPECTED_ARGUMENT
        /\ eOut.ok => topicSlots(eFragment, eIn.values, eOut.v) /\ noTrailingNull(eOut.v)

\* a value for an input that is not indexed is refused after indexed
\* values were taken, and topics are returned from which a trailing null
\* was removed behind a topic that is kept
C13_Refused ==
    /\ ePc = "filtered" /\ ~eOut.ok /\ eOut.err.code = INVALID_ARGUMENT
    /\ \E i \in nonIndexedGiven(eFragment, eIn.values) :
          /\ ~isNullish(eIn.values[i]) /\ takenBefore(eFragment, eIn.values, i)
          /\ \E j \in indexedGiven(eFragment, eIn.values) : j < i /\ ~isNullish(eIn.values[j])

\* topics are returned for a call that gives null for an input that is not
\* indexed, and more than one trailing null was removed from them
C13_Witness ==
    /\ ePc = "filtered" /\ eOut.ok
    /\ \E i \in nonIndexedGiven(eFragment, eIn.values) : isNullish(eIn.values[i])
    /\ Len(eOut.v) + 2 <= (IF eFragment.anonymous THEN 0 ELSE 1) + Cardinality(indexedGiven(eFragment, eIn.values))

\* ------------------------------------------------------------------------
\* Type strings: parseParamType, ParamType.fromString and ParamType.format
\* ------------------------------------------------------------------------
\* type strings: plain types, arrays, tuples and nested tuples, names and
\* modifiers, indexed once and twice before each terminator, commas at the
\* top level, and unbalanced brackets
ParamTexts ==
    { <<"u", "i", "n", "t", "2", "5", "6">>, <<"u", "i", "n", "t">>, <<"a", "d", "d", "r", "e", "s", "s", " ", "p", "a", "y", "a", "b", "l", "e">>, <<"b", "y", "t", "e", "s", " ", "m", "e", "m", "o", "r", "y", " ", "n", "o", "t", "e">>, <<>>, <<"t", "u", "p", "l", "e", "(", ")">>, <<")">>, <<"t", "u", "p", "l", "e", "(", "u", "i", "n", "t", "8">>,
      <<"u", "i", "n", "t", "2", "5", "6", ",">>, <<"u", "i", "n", "t", "2", "5", "6", ",", "a", "d", "d", "r", "e", "s", "s">>, <<",">>, <<"u", "i", "n", "t", "2", "5", "6", " ", "a", "m", "o", "u", "n", "t", ",">>, <<"t", "u", "p", "l", "e", "(", "u", "i", "n", "t", "8", " ", "i", "d", ")", ",">>, <<"u", "i", "n", "t", "2", "5", "6", "[", "]", ",">>,
      <<"u", "i", "n", "t", "2", "5", "6", " ", "i", "n", "d", "e", "x", "e", "d", ",">>, <<"b", "y", "t", "e", "s", " ", "p", "a", "y", "a", "b", "l", "e", ",">>,
      <<"u", "i", "n", "t", "2", "5", "6", " ", "i", "n", "d", "e", "x", "e", "d">>, <<"u", "i", "n", "t", "2", "5", "6", " ", "i", "n", "d", "e", "x", "e", "d", " ", "i", "n", "d", "e", "x", "e", "d">>, <<"u", "i", "n", "t", "2", "5", "6", " ", "i", "n", "d", "e", "x", "e", "d", " ", "i", "n", "d", "e", "x", "e", "d", " ", "a", "m", "o", "u", "n", "t">>,
      <<"u", "i", "n", "t", "2", "5", "6", " ", "i", "n", "d", "e", "x", "e", "d", " ", "a", "m", "o", "u", "n", "t">>, <<"u", "i", "n", "t", "2", "5", "6", " ", "a", "m", "o", "u", "n", "t", " ", "i", "n", "d", "e", "x", "e", "d">>,
      <<"t", "u", "p", "l", "e", "(", "u", "i", "n", "t", "2", "5", "6", " ", "i", "n", "d", "e", "x", "e", "d", ")">>, <<"t", "u", "p", "l", "e", "(", "u", "i", "n", "t", "2", "5", "6", " ", "i", "n", "d", "e", "x", "e", "d", " ", "a", "m", "o", "u", "n", "t", ")">>, <<"t", "u", "p", "l", "e", "(", "u", "i", "n", "t", "2", "5", "6", " ", "i", "n", "d", "e", "x", "e", "d", ",", "a", "d", "d", "r", "e", "s", "s", ")">>,
      <<"t", "u", "p", "l", "e", "(", "u", "i", "n", "t", "2", "5", "6", " ", "i", "n", "d", "e", "x", "e", "d", " ", "i", "n", "d", "e", "x", "e", "d", ")">>, <<"t", "u", "p", "l", "e", "(", "u", "i", "n", "t", "2", "5", "6", " ", "i", "n", "d", "e", "x", "e", "d", " ", "i", "n", "d", "e", "x", "e", "d", ",", "a", "d", "d", "r", "e", "s", "s", ")">>,
      <<"t", "u", "p", "l", "e", "(", "u", "i", "n", "t", "2", "5", "6", " ", "i", "n", "d", "e", "x", "e", "d", " ", "i", "n", "d", "e", "x", "e", "d", " ", "a", "m", "o", "u", "n", "t", ")">>, <<"t", "u", "p", "l", "e", "(", "a", "d", "d", "r", "e", "s", "s", ",", "u", "i", "n", "t", "2", "5", "6", " ", "i", "n", "d", "e", "x", "e", "d", " ", "i", "n", "d", "e", "x", "e", "d", ")">>,
      <<"t", "u", "p", "l", "e", "(", "t", "u", "p", "l", "e", "(", "u", "i", "n", "t", "8", " ", "i", "n", "d", "e", "x", "e", "d", " ", "i", "n", "d", "e", "x", "e", "d", ")", " ", "i", "d", ")">>,
      <<"u", "i", "n", "t", "8", "[", "]">>, <<"u", "i", "n", "t", "8", "[", "3", "]">>, <<"u", "i", "n", "t", "[", "0", "3", "]">>, <<"u", "i", "n", "t", "8", "[", "2", "]", "[", "]">>, <<"s", "t", "r", "i", "n", "g", "[", "0", "]">>, <<"u", "i", "n", "t", "8", "[">>, <<"u", "i", "n", "t", "8", "]">>, <<"u", "i", "n", "t", "8", "[", "3">>,
      <<"t", "u", "p", "l", "e", "(", "a", "d", "d", "r", "e", "s", "s", ",", "u", "i", "n", "t", "2", "5", "6", ")", "[", "3", "]">>, <<"t", "u", "p", "l", "e", "(", "a", "d", "d", "r", "e", "s", "s", ",", "u", "i", "n", "t", "2", "5", "6", ")", "[", "]">>, <<"t", "u", "p", "l", "e", "(", "a", "d", "d", "r", "e", "s", "s", " ", "t", "o", ",", " ", "t", "u", "p", "l", "e", "(", "u", "i", "n", "t", "8", " ", "i", "d", ")", "[", "2", "]", " ", "n", "o", "t", "e", ")", "[", "1", "]">>,
      <<"(", "a", "d", "d", "r", "e", "s", "s", ",", "u", "i", "n", "t", "2", "5", "6", ")", "[", "3", "]", "[", "]">>,
      <<"t", "u", "p", "l", "e", "(", "u", "i", "n", "t", "8", ",", "t", "u", "p", "l", "e", "(", "a", "d", "d", "r", "e", "s", "s", ",", "b", "o", "o", "l", ")", ")">>, <<"t", "u", "p", "l", "e", "(", "t", "u", "p", "l", "e", "(", "u", "i", "n", "t", "8", ")", ")">>, <<"(", "u", "i", "n", "t", "8", ",", "(", "a", "d", "d", "r", "e", "s", "s", ",", "b", "o", "o", "l", ")", "[", "]", ")">>,
      <<"t", "u", "p", "l", "e", "(", "u", "i", "n", "t", "8", " ", "i", "d", ",", " ", "t", "u", "p", "l", "e", "(", "a", "d", "d", "r", "e", "s", "s", " ", "w", "h", "o", ")", " ", "t", "o", ")", " ", "n", "o", "t", "e">>, <<"t", "u", "p", "l", "e", "(", "u", "i", "n", "t", "8", ",", "t", "u", "p", "l", "e", "(", "a", "d", "d", "r", "e", "s", "s", ",", "t", "u", "p", "l", "e", "(", "b", "o", "o", "l", ",", "s", "t", "r", "i", "n", "g", ")", ")", "[", "2", "]", ")">> }

ParamInit ==
    /\ pPc = "start"
    /\ \E param \in ParamTexts, allowIndexed \in BOOLEAN : pIn = [param |-> param, allowIndexed |-> allowIndexed]
    /\ pOut = None
    /\ nIdle /\ cIdle /\ dIdle /\ fIdle /\ iIdle /\ xIdle /\ eIdle /\ sIdle /\ qIdle

\* parseParamType(param, allowIndexed)
ParamParse ==
    /\ pPc = "start"
    /\ pOut' = parseParamType(pIn.param, pIn.allowIndexed)
    /\ pPc' = "parsed"
    /\ UNCHANGED <<pIn, nVars, cVars, dVars, fVars, iVars, xVars, eVars, sVars, qVars>>

\* ParamType.fromString(value, allowIndexed)
ParamFromString ==
    /\ pPc = "start"
    /\ pOut' = ParamType_fromString(pIn.param, pIn.allowIndexed)
    /\ pPc' = "made"
    /\ UNCHANGED <<pIn, nVars, cVars, dVars, fVars, iVars, xVars, eVars, sVars, qVars>>

\* paramType.format(FormatTypes.sighash) of the ParamType made
ParamFormat ==
    /\ pPc = "made"
    /\ pOut.ok
    /\ pOut' = [ok |-> TRUE, v |-> pOut.v, text |-> ParamType_format(pOut.v)]
    /\ pPc' = "formatted"
    /\ UNCHANGED <<pIn, nVars, cVars, dVars, fVars, iVars, xVars, eVars, sVars, qVars>>

ParamNext == ParamParse \/ ParamFromString \/ ParamFormat

SpecParam == ParamInit /\ [][ParamNext]_vars

\* the number of '(' less the number of ')' before character i of a text
depthBefore(text, i) ==
    Cardinality({j \in 1..(i - 1) : text[j] = "("}) - Cardinality({j \in 1..(i - 1) : text[j] = ")"})

\* a text has a ',' outside every pair of parentheses
hasTopLevelComma(text) == \E i \in 1..Len(text) : text[i] = "," /\ depthBefore(text, i) = 0

\* the outcome is the error "unexpected character at position i"
isPositional(res) ==
    ~res.ok /\ res.err.code = INVALID_ARGUMENT /\ res.err.reason = "unexpected character at position"

\* C14: parseParamType of a text with a ',' at nesting depth 0 fails with
\* the invalid-argument error "unexpected character at position i": it
\* returns no type and fails in no other way.
C14_StrayComma ==
    pPc = "parsed" /\ hasTopLevelComma(pIn.param) => isPositional(pOut)

\* a text with a ',' at nesting depth 0 is never parsed to a type
C14_StrayCommaFails ==
    pPc = "parsed" /\ hasTopLevelComma(pIn.param) => ~pOut.ok

\* the places of a text where the word indexed stands as a modifier: after
\* a space and before a space, a ',', a ')' or the end of the text
indexedTokens(text) ==
    {i \in 2..(Len(text) - 6) :
        /\ SubSeq(text, i, i + 6) = T_indexed
        /\ text[i - 1] = " "
        /\ i + 7 > Len(text) \/ text[i + 7] \in {" ", ",", ")"}}

\* what ends the token at i: " ", ",", ")" or "end"
terminatorOf(text, i) == IF i + 7 > Len(text) THEN "end" ELSE text[i + 7]

\* two places of a text lie in the same parameter or tuple component
sameParameter(text, i, j) == \A n \in i..j : text[n] \notin {"(", ",", ")"}

\* the second indexed tokens of a parameter, ended by one of terminators
secondIndexed(text, terminators) ==
    {j \in indexedTokens(text) :
        /\ terminatorOf(text, j) \in terminators
        /\ \E i \in indexedTokens(text) : i < j /\ sameParameter(text, i, j)}

\* an indexed token that is not allowed, or a second one ended by one of
\* terminators, makes parseParamType fail with "unexpected character at
\* position i"
indexedOnce(terminators) ==
    pPc = "parsed"
        /\ \/ ~pIn.allowIndexed /\ indexedTokens(pIn.param) # {}
           \/ secondIndexed(pIn.param, terminators) # {}
        => isPositional(pOut)

\* C15: parseParamType fails with the error "unexpected character at
\* position i" for a text with an indexed token when allowIndexed is
\* false, and for a text with a second indexed token in one parameter or
\* tuple component, whether a space, a ',', a ')' or the end of the text
\* ends that token.
C15_IndexedOnce == indexedOnce({" ", ",", ")", "end"})

\* the same for second tokens ended by a space or the end of the text
C15_IndexedOnceSpaceEnd == indexedOnce({" ", "end"})

\* a text of the form T[k] or T[]: it ends with digits in brackets
isArrayText(text) ==
    /\ text # <<>> /\ text[Len(text)] = "]"
    /\ LastIndexOf(text, "[") > 0
    /\ \A i \in (LastIndexOf(text, "[") + 1)..(Len(text) - 1) : text[i] \in Digits

\* T and k of a text T[k]; k is -1 for T[]
elementText(text) == SubSeq(text, 1, LastIndexOf(text, "[") - 1)
lengthOfText(text) ==
    IF LastIndexOf(text, "[") = Len(text) - 1 THEN -1
    ELSE parseDigits(SubSeq(text, LastIndexOf(text, "[") + 1, Len(text) - 1))

\* C16: for a text T[k] whose T is a type string, ParamType.fromString
\* gives a ParamType of baseType array with arrayLength k (-1 for T[])
\* whose arrayChildren is the ParamType of T, components included; for
\* tuple(address,uint256)[3] arrayLength is 3 and arrayChildren is a tuple
\* of two components.
C16_ArrayNode ==
    /\ pPc = "made" /\ isArrayText(pIn.param) /\ ParamType_fromString(elementText(pIn.param), pIn.allowIndexed).ok
          => /\ pOut.ok
             /\ pOut.v.baseType = <<"a", "r", "r", "a", "y">>
             /\ pOut.v.arrayLength = lengthOfText(pIn.param)
             /\ pOut.v.arrayChildren = <<ParamType_fromString(elementText(pIn.param), pIn.allowIndexed).v>>
             /\ pOut.v.arrayChildren[1].components = pOut.v.components
    /\ pPc = "made" /\ pIn.param = <<"t", "u", "p", "l", "e", "(", "a", "d", "d", "r", "e", "s", "s", ",", "u", "i", "n", "t", "2", "5", "6", ")", "[", "3", "]">>
          => /\ pOut.ok /\ pOut.v.arrayLength = 3
             /\ pOut.v.arrayChildren[1].baseType = T_tuple
             /\ Len(pOut.v.arrayChildren[1].components) = 2

\* an array of arrays of tuples is made: T[] over T = (address,uint256)[3]
C16_Witness ==
    /\ pPc = "made" /\ pOut.ok
    /\ pIn.param = <<"(", "a", "d", "d", "r", "e", "s", "s", ",", "u", "i", "n", "t", "2", "5", "6", ")", "[", "3", "]", "[", "]">>
    /\ pOut.v.arrayLength = -1
    /\ pOut.v.arrayChildren[1].arrayLength = 3
    /\ Len(pOut.v.arrayChildren[1].arrayChildren[1].components) = 2

\* ------------------------------------------------------------------------
\* verifyState on its own
\* ------------------------------------------------------------------------
\* the values of stateMutability, and a string that is none of them
StateMutabilities == {"pure", "view", "nonpayable", "payable"}

StateInputs ==
    [type : {"function", "constructor"},
     constant : {"undefined", "true", "false"},
     payable : {"undefined", "true", "false"},
     stateMutability : {"undefined", "mutable"} \cup StateMutabilities]

StateInit ==
    /\ sPc = "start"
    /\ sIn \in StateInputs
    /\ sOut = None
    /\ nIdle /\ cIdle /\ dIdle /\ fIdle /\ iIdle /\ xIdle /\ eIdle /\ pIdle /\ qIdle

\* verifyState(value)
StateVerify ==
    /\ sPc = "start"
    /\ sOut' = verifyState(sIn)
    /\ sPc' = "verified"
    /\ UNCHANGED <<sIn, nVars, cVars, dVars, fVars, iVars, xVars, eVars, pVars, qVars>>

StateNext == StateVerify

SpecState == StateInit /\ [][StateNext]_vars

\* the triple is consistent: stateMutability is one of the four values,
\* constant goes with view and pure, payable with payable
consistentState(state) ==
    /\ state.stateMutability \in StateMutabilities
    /\ state.constant = (state.stateMutability \in {"view", "pure"})
    /\ state.payable = (state.stateMutability = "payable")

\* the fields given contradict each other
contradictoryState(value) ==
    \/ /\ value.stateMutability # "undefined" /\ value.constant # "undefined"
       /\ (value.constant = "true") # (value.stateMutability \in {"view", "pure"})
    \/ /\ value.stateMutability # "undefined" /\ value.payable # "undefined"
       /\ (value.payable = "true") # (value.stateMutability = "payable")
    \/ value.payable = "true" /\ value.constant = "true"

\* C17: for every combination of constant, payable and stateMutability,
\* verifyState fails or returns a triple whose stateMutability is pure,
\* view, nonpayable or payable, whose constant is true exactly for view and
\* pure and whose payable is true exactly for payable; and it fails when
\* the fields given contradict each other.
C17_VerifyState ==
    sPc = "verified" =>
        /\ sOut.ok => consistentState(sOut.v)
        /\ contradictoryState(sIn) => ~sOut.ok

\* the same for a stateMutability that is absent or one of the four values
C17_VerifyStateKnown ==
    sPc = "verified" /\ sIn.stateMutability \in StateMutabilities \cup {"undefined"} =>
        /\ sOut.ok => consistentState(sOut.v)
        /\ contradictoryState(sIn) => ~sOut.ok

\* the functions, events or errors of an Interface, for a fragment type
bucketOf(iface, type) ==
    CASE type = "function" -> iface.functions
      [] type = "event" -> iface.events
      [] type = "error" -> iface.errors

\* fragments i and j of an Interface are of one category and have one
\* canonical signature
sameSignature(iface, i, j) ==
    /\ iface.fragments[i].type = iface.fragments[j].type
    /\ Fragment_format(iface.fragments[i]) = Fragment_format(iface.fragments[j])

\* each mapping of the Interface holds, under every signature given, the
\* first fragment of its category with that signature
C18_FirstDefinition ==
    \A j \in 1..Len(iFace.fragments) :
        /\ Bucket_has(bucketOf(iFace, iFace.fragments[j].type), Fragment_format(iFace.fragments[j]).v)
        /\ Bucket_get(bucketOf(iFace, iFace.fragments[j].type), Fragment_format(iFace.fragments[j]).v)
              = iFace.fragments[CHOOSE i \in 1..j : sameSignature(iFace, i, j)
                                                       /\ \A n \in 1..(i - 1) : ~sameSignature(iFace, n, j)]

\* C18: an Interface constructed from fragments that repeat a canonical
\* signature within a category holds the first definition under that
\* signature in its functions, events or errors, and its fragments list
\* has no second or later fragment of that category with that signature.
C18_Deduplicated ==
    /\ C18_FirstDefinition
    /\ \A i, j \in 1..Len(iFace.fragments) : i < j => ~sameSignature(iFace, i, j)

\* a text contains a word
containsText(text, word) ==
    \E i \in 1..(Len(text) - Len(word) + 1) : SubSeq(text, i, i + Len(word) - 1) = word

\* a ParamType is a tuple with a tuple, or an array of tuples, among its
\* components
isTupleType(p) == p.hasComponents
hasNestedTuple(p) ==
    /\ p.baseType = T_tuple
    /\ \E i \in 1..Len(p.components) : isTupleType(p.components[i])

\* C19 as stated: the sighash format of a tuple with tuples among its
\* components leaves the tuple keyword out for the tuple itself and
\* spells the components tuple(...).
C19_NestedSpelled ==
    pPc = "formatted" /\ pOut.text.ok /\ hasNestedTuple(pOut.v) =>
        /\ pOut.text.v[1] = "("
        /\ containsText(pOut.text.v, <<"t", "u", "p", "l", "e", "(">>)

\* C19: the sighash format of a ParamType has the tuple keyword at no
\* level: a tuple is rendered as its components in parentheses, and so is
\* each tuple among its components.
C19_NoKeyword ==
    /\ pPc = "formatted" /\ pOut.text.ok =>
          /\ ~containsText(pOut.text.v, T_tuple)
          /\ pOut.v.baseType = T_tuple => pOut.text.v[1] = "("
    /\ pPc = "formatted" /\ pIn.param = <<"t", "u", "p", "l", "e", "(", "u", "i", "n", "t", "8", ",", "t", "u", "p", "l", "e", "(", "a", "d", "d", "r", "e", "s", "s", ",", "b", "o", "o", "l", ")", ")">>
          => pOut.text = Ok(<<"(", "u", "i", "n", "t", "8", ",", "(", "a", "d", "d", "r", "e", "s", "s", ",", "b", "o", "o", "l", ")", ")">>)
    /\ pPc = "formatted" /\ pIn.param = <<"t", "u", "p", "l", "e", "(", "u", "i", "n", "t", "8", " ", "i", "d", ",", " ", "t", "u", "p", "l", "e", "(", "a", "d", "d", "r", "e", "s", "s", " ", "w", "h", "o", ")", " ", "t", "o", ")", " ", "n", "o", "t", "e">>
          => pOut.text = Ok(<<"(", "u", "i", "n", "t", "8", ",", "(", "a", "d", "d", "r", "e", "s", "s", ")", ")">>)
    /\ pPc = "formatted" /\ pIn.param = <<"t", "u", "p", "l", "e", "(", "u", "i", "n", "t", "8", ",", "t", "u", "p", "l", "e", "(", "a", "d", "d", "r", "e", "s", "s", ",", "t", "u", "p", "l", "e", "(", "b", "o", "o", "l", ",", "s", "t", "r", "i", "n", "g", ")", ")", "[", "2", "]", ")">>
          => pOut.text = Ok(<<"(", "u", "i", "n", "t", "8", ",", "(", "a", "d", "d", "r", "e", "s", "s", ",", "(", "b", "o", "o", "l", ",", "s", "t", "r", "i", "n", "g", ")", ")", "[", "2", "]", ")">>)

\* a tuple with a tuple among its components is formatted
C19_Witness ==
    /\ pPc = "formatted" /\ pOut.text.ok
    /\ pIn.param = <<"t", "u", "p", "l", "e", "(", "u", "i", "n", "t", "8", ",", "t", "u", "p", "l", "e", "(", "a", "d", "d", "r", "e", "s", "s", ",", "t", "u", "p", "l", "e", "(", "b", "o", "o", "l", ",", "s", "t", "r", "i", "n", "g", ")", ")", "[", "2", "]", ")">>
    /\ hasNestedTuple(pOut.v)

\* ------------------------------------------------------------------------
\* Error fragments: ErrorFragment.from, Fragment.from and new Interface
\* ------------------------------------------------------------------------
ErrorNames == {<<"E", "r", "r", "o", "r">>, <<"P", "a", "n", "i", "c">>, <<"O", "o", "p", "s">>}

\* the parameters of an error as pairs of a type and a name
ErrorParams ==
    { <<>>,
      <<<<T_string, <<>>>>>>, <<<<T_string, <<"r", "e", "a", "s", "o", "n">>>>>>, <<<<T_string, <<"E", "r", "r", "o", "r">>>>>>,
      <<<<<<"u", "i", "n", "t", "2", "5", "6">>, <<>>>>>>, <<<<<<"u", "i", "n", "t", "2", "5", "6">>, <<"c", "o", "d", "e">>>>>>,
      <<<<T_uint, <<>>>>>>, <<<<T_uint, <<"P", "a", "n", "i", "c">>>>>>,
      <<<<T_bytes, <<"r", "e", "a", "s", "o", "n">>>>>>,
      <<<<T_string, <<"r", "e", "a", "s", "o", "n">>>>, <<<<"u", "i", "n", "t", "2", "5", "6">>, <<"c", "o", "d", "e">>>>>> }

\* name(type name,type name), with single spaces or with more white space
paramText(param, wide) ==
    (IF wide THEN <<" ">> ELSE <<>>) \o param[1] \o (IF param[2] = <<>> THEN <<>> ELSE <<" ">> \o param[2])
        \o (IF wide THEN <<" ">> ELSE <<>>)
signatureText(name, params, wide) ==
    name \o (IF wide THEN <<" ">> ELSE <<>>) \o <<"(">>
         \o join([i \in 1..Len(params) |-> paramText(params[i], wide)], <<",">>) \o <<")">>

\* the JSON form of the same error
errorObject(name, params) ==
    JsonFragment("error", name, [i \in 1..Len(params) |-> JsonParam(params[i][1], params[i][2])], <<>>,
                 "undefined", "undefined", "undefined", FALSE, <<>>)

\* an error given as a bare signature, as a string behind the keyword
\* error, or as an object
ErrorForms == {"signature", "wide signature", "string", "wide string", "object"}
errorValue(form, name, params) ==
    CASE form = "signature" -> StringValue(signatureText(name, params, FALSE))
      [] form = "wide signature" -> StringValue(signatureText(name, params, TRUE))
      [] form = "string" -> StringValue(<<"e", "r", "r", "o", "r", " ">> \o signatureText(name, params, FALSE))
      [] form = "wide string" -> StringValue(<<" ", "e", "r", "r", "o", "r", " ", " ">> \o signatureText(name, params, TRUE))
      [] form = "object" -> ObjectValue(errorObject(name, params))

ErrorInit ==
    /\ gPc = "start"
    /\ \E form \in ErrorForms, name \in ErrorNames, params \in ErrorParams :
          gIn = [form |-> form, name |-> name, params |-> params, value |-> errorValue(form, name, params)]
    /\ gOut = None
    /\ oIdle /\ kIdle /\ bIdle /\ rIdle /\ lIdle /\ wIdle /\ hIdle

\* ErrorFragment.from(value)
ErrorFrom ==
    /\ gPc = "start"
    /\ gOut' = [by |-> "ErrorFragment.from", res |-> ErrorFragment_from(gIn.value)]
    /\ gPc' = "done"
    /\ UNCHANGED <<gIn, oVars, kVars, bVars, rVars, lVars, wVars, hVars>>

\* Fragment.from(value)
ErrorFragmentFrom ==
    /\ gPc = "start"
    /\ gOut' = [by |-> "Fragment.from", res |-> Fragment_from(gIn.value)]
    /\ gPc' = "done"
    /\ UNCHANGED <<gIn, oVars, kVars, bVars, rVars, lVars, wVars, hVars>>

\* new Interface([value]): Fragment.from for the fragment, then the buckets
ErrorInterface ==
    /\ gPc = "start"
    /\ gOut' = [by |-> "Interface",
                res |-> The({ IF ~fragment.ok THEN fragment
                              ELSE Interface_addAll(<<fragment.v>>,
                                       [fragments |-> <<fragment.v>>, functions |-> <<>>,
                                        events |-> <<>>, errors |-> <<>>]) :
                              fragment \in {Fragment_from(gIn.value)} })]
    /\ gPc' = "done"
    /\ UNCHANGED <<gIn, oVars, kVars, bVars, rVars, lVars, wVars, hVars>>

ErrorNext == ErrorFrom \/ ErrorFragmentFrom \/ ErrorInterface

SpecError == ErrorInit /\ [][ErrorNext]_vars

\* the canonical signature of the error is Error(string) or Panic(uint256):
\* uint is the alias of uint256
reservedError ==
    \/ gIn.name = <<"E", "r", "r", "o", "r">> /\ Len(gIn.params) = 1 /\ gIn.params[1][1] = T_string
    \/ gIn.name = <<"P", "a", "n", "i", "c">> /\ Len(gIn.params) = 1 /\ gIn.params[1][1] \in {T_uint, <<"u", "i", "n", "t", "2", "5", "6">>}

\* the value is in the form the function called reads an error from
readAsError ==
    \/ gOut.by = "ErrorFragment.from" /\ gIn.form \in {"signature", "wide signature", "object"}
    \/ gOut.by \in {"Fragment.from", "Interface"} /\ gIn.form \in {"string", "wide string", "object"}

\* C21: an error whose canonical signature is Error(string) or
\* Panic(uint256) is never constructed: ErrorFragment.from (fromString and
\* fromObject), Fragment.from and new Interface fail with an
\* invalid-argument error, whatever the names of the parameters; read in
\* its own form, it is refused by checkForbidden, and any other error of
\* the inputs is constructed.
C21_ReservedRejected ==
    gPc = "done" =>
        /\ reservedError => ~gOut.res.ok /\ gOut.res.err.code = INVALID_ARGUMENT
        /\ reservedError /\ readAsError
              => gOut.res = throwArgumentError("cannot specify user defined error")
        /\ ~reservedError /\ readAsError => gOut.res.ok

\* Panic(uint Panic), given as an object, is refused by ErrorFragment.from
C21_Witness ==
    /\ gPc = "done"
    /\ gOut.by = "ErrorFragment.from"
    /\ gIn.form = "object" /\ gIn.name = <<"P", "a", "n", "i", "c">> /\ gIn.params = <<<<T_uint, <<"P", "a", "n", "i", "c">>>>>>
    /\ gOut.res = throwArgumentError("cannot specify user defined error")

\* ------------------------------------------------------------------------
\* AbiCoder._getCoder: the dynamic flag of the coders
\* ------------------------------------------------------------------------
CoderLeaves ==
    { PLeaf("address", 0, ""), PLeaf("bool", 0, ""), PLeaf("string", 0, ""), PLeaf("bytes", 0, ""),
      PLeaf("uint", 8, ""), PLeaf("int", 256, ""), PLeaf("bytesN", 4, ""), PLeaf("", 0, "") }

\* lengths of arrays: dynamic, empty and fixed
CoderLengths == {-1, 0, 2}

CoderArrays == {PArray(leaf, length, "") : leaf \in CoderLeaves, length \in CoderLengths}

\* tuples of one or two members: leaves, or arrays of strings and of numbers
CoderMembers ==
    {PLeaf("address", 0, ""), PLeaf("string", 0, ""), PLeaf("uint", 8, ""), PLeaf("", 0, "")}
        \cup {PArray(leaf, length, "") : leaf \in {PLeaf("string", 0, ""), PLeaf("uint", 8, "")},
                                         length \in {-1, 2}}
CoderTuples ==
    {PTuple(<<a>>, "") : a \in CoderMembers} \cup {PTuple(<<a, b>>, "") : a, b \in CoderMembers}

\* a third level: arrays of arrays and of tuples, tuples in tuples
CoderNested ==
    {PArray(inner, length, "") : inner \in CoderArrays \cup {PTuple(<<a>>, "") : a \in CoderMembers},
                                 length \in {-1, 2}}
        \cup {PTuple(<<PLeaf("bool", 0, ""), PTuple(<<a>>, "")>>, "") : a \in CoderMembers}

CoderTypes == CoderLeaves \cup CoderArrays \cup CoderTuples \cup CoderNested

CoderInit ==
    /\ kPc = "start"
    /\ kIn \in CoderTypes
    /\ kOut = None
    /\ oIdle /\ gIdle /\ bIdle /\ rIdle /\ lIdle /\ wIdle /\ hIdle

\* abiCoder._getCoder(param)
CoderGet ==
    /\ kPc = "start"
    /\ kOut' = AbiCoder_getCoder(kIn)
    /\ kPc' = "done"
    /\ UNCHANGED <<kIn, oVars, gVars, bVars, rVars, lVars, wVars, hVars>>

CoderNext == CoderGet

SpecCoder == CoderInit /\ [][CoderNext]_vars

\* the encoded length of the type is not known from the type alone
RECURSIVE dynamicType(_)
dynamicType(param) ==
    CASE param.baseType \in {"string", "bytes"} -> TRUE
      [] param.baseType = "array" -> param.arrayLength = -1 \/ dynamicType(param.arrayChildren[1])
      [] param.baseType = "tuple" -> \E i \in 1..Len(param.components) : dynamicType(param.components[i])
      [] OTHER -> FALSE

\* the coder and the coders inside it carry the flag of their types
RECURSIVE flagsFollowTypes(_, _)
flagsFollowTypes(coder, param) ==
    /\ coder.dynamic = dynamicType(param)
    /\ param.baseType = "array" => flagsFollowTypes(coder.coders[1], param.arrayChildren[1])
    /\ param.baseType = "tuple" =>
          \A i \in 1..Len(param.components) : flagsFollowTypes(coder.coders[i], param.components[i])

\* C22: the coder AbiCoder._getCoder builds for a type is dynamic exactly
\* when the type is string, bytes, an array of dynamic length, or an array
\* or tuple with a dynamic member at any depth, and so is every coder
\* inside it; all the types of the inputs have a coder.
C22_DynamicFlag ==
    kPc = "done" => kOut.ok /\ flagsFollowTypes(kOut.v, kIn)

\* a fixed array of tuples holding a dynamic array of numbers is dynamic,
\* and a fixed array of fixed arrays of numbers is not
C22_Witness ==
    /\ kPc = "done" /\ kOut.ok
    /\ kIn = PArray(PTuple(<<PArray(PLeaf("uint", 8, ""), -1, "")>>, ""), 2, "")
    /\ kOut.v.dynamic /\ kOut.v.length = 2
    /\ ~AbiCoder_getCoder(PArray(PArray(PLeaf("uint", 8, ""), 2, ""), 2, "")).v.dynamic

\* ------------------------------------------------------------------------
\* unpack: the named properties of a Result
\* ------------------------------------------------------------------------
\* the name a field is exposed under
exposedName(name) == IF name = "length" THEN "_length" ELSE name

\* the name occurs once among the fields of the decode
occursOnce(name) == Cardinality({i \in 1..Len(dTypes) : dTypes[i].name = name}) = 1

\* the property set on the Result under a name, if one is
isExposed(name) == \E j \in 1..Len(dRes.v.named) : dRes.v.named[j].name = name
exposedValue(name) == dRes.v.named[CHOOSE j \in 1..Len(dRes.v.named) : dRes.v.named[j].name = name].v

\* field i is exposed under its name with its own positional value, or,
\* its name being empty or shared, under no name
namedAsStated(i) ==
    IF dTypes[i].name # "" /\ occursOnce(dTypes[i].name)
    THEN /\ isExposed(exposedName(dTypes[i].name))
         /\ i <= Len(dRes.v.x)
         /\ exposedValue(exposedName(dTypes[i].name)) = dRes.v.x[i]
    ELSE ~isExposed(exposedName(dTypes[i].name))

\* C23 as stated: a decoded field is exposed under its name exactly when
\* the name is not empty and occurs once among the coders, length as
\* _length, with the positional value of the same coder; a shared name is
\* exposed under no name.
C23_NamedFields ==
    dPc = "decoded" /\ dRes.ok => \A i \in 1..Len(dTypes) : namedAsStated(i)

\* no field has the empty type and no name is one an Array answers to
plainFields ==
    \A i \in 1..Len(dTypes) : dTypes[i].baseType # "" /\ dTypes[i].name \notin ArrayMembers

\* what holds: the same for decodes whose fields all have a type and whose
\* names are not names of members of Array; a name such as push is unique
\* and not exposed.
C23_NamedFieldsPlain ==
    dPc = "decoded" /\ dRes.ok =>
        /\ plainFields => \A i \in 1..Len(dTypes) : namedAsStated(i)
        /\ \A i \in 1..Len(dTypes) : dTypes[i].name \in ArrayMembers => ~isExposed(dTypes[i].name)

\* ------------------------------------------------------------------------
\* BigNumber.div and BigNumber.mod
\* ------------------------------------------------------------------------
\* the operands, as JavaScript numbers
DivNumbers == {-1000, -256, -255, -9, -7, -2, -1, 0, 1, 2, 3, 7, 255, 256, 1000}

DivInit ==
    /\ bPc = "start"
    /\ \E a \in DivNumbers, b \in DivNumbers : bIn = [this |-> a, other |-> b]
    /\ bOut = None
    /\ oIdle /\ gIdle /\ kIdle /\ rIdle /\ lIdle /\ wIdle /\ hIdle

\* BigNumber.from(this).div(other)
DivDiv ==
    /\ bPc = "start"
    /\ bOut' = [by |-> "div", res |-> BigNumber_div(BigNumber_fromNumber(bIn.this), BigNumber_fromNumber(bIn.other))]
    /\ bPc' = "done"
    /\ UNCHANGED <<bIn, oVars, gVars, kVars, rVars, lVars, wVars, hVars>>

\* BigNumber.from(this).mod(other)
DivMod ==
    /\ bPc = "start"
    /\ bOut' = [by |-> "mod", res |-> BigNumber_mod(BigNumber_fromNumber(bIn.this), BigNumber_fromNumber(bIn.other))]
    /\ bPc' = "done"
    /\ UNCHANGED <<bIn, oVars, gVars, kVars, rVars, lVars, wVars, hVars>>

DivNext == DivDiv \/ DivMod

SpecDiv == DivInit /\ [][DivNext]_vars

\* C24 as stated: div and mod raise a numeric fault whenever the other
\* operand is negative, and return no value.
C24_NegativeOperand ==
    bPc = "done" /\ bIn.other < 0 => ~bOut.res.ok /\ bOut.res.err.code = NUMERIC_FAULT

\* what holds: mod raises the numeric fault for every negative operand;
\* div raises one for the operand zero only, and for a negative operand
\* returns the quotient rounded towards zero.
C24_NegativeOperandMod ==
    bPc = "done" =>
        /\ bOut.by = "mod" /\ bIn.other < 0 => bOut.res = throwFault("cannot modulo negative values")
        /\ bOut.by = "div" => (~bOut.res.ok <=> bIn.other = 0)
        /\ bOut.by = "div" /\ bIn.other < 0 =>
              /\ bOut.res.ok
              /\ (IF bIn.this >= 0 THEN bIn.this - toNumber(bOut.res.v) * bIn.other \in 0..(-bIn.other - 1)
                  ELSE toNumber(bOut.res.v) * bIn.other - bIn.this \in 0..(-bIn.other - 1))

\* ------------------------------------------------------------------------
\* Reader: the cursor
\* ------------------------------------------------------------------------
\* lengths of the data of a Reader, whole words and not
ReaderSizes == {0, 1, 31, 32, 33, 64, 70}

\* lengths asked of readBytes; HugeNumber is a length read from hostile data
ReaderLengths == {0, 1, 5, 31, 32, 33, 64, HugeNumber}

\* data whose bytes differ from their neighbours
ReaderData(size) == [i \in 1..size |-> (7 * i) % 256]

ReaderInit ==
    /\ rPc = "ready"
    /\ \E size \in ReaderSizes, allowLoose \in BOOLEAN : rReader = NewReader(ReaderData(size), allowLoose)
    /\ rOut = None
    /\ oIdle /\ gIdle /\ kIdle /\ bIdle /\ lIdle /\ wIdle /\ hIdle

\* reader.readBytes(length, loose)
ReaderReadBytes ==
    /\ rPc \in {"ready", "read"}
    /\ \E length \in ReaderLengths, loose \in BOOLEAN :
          \E res \in {Reader_readBytes(rReader, length, loose)} :
             /\ rReader' = res.r
             /\ rOut' = [by |-> "readBytes", length |-> length, loose |-> loose, before |-> rReader.offset,
                         res |-> IF res.ok THEN Ok(res.v) ELSE Err(res.err)]
    /\ rPc' = "read"
    /\ UNCHANGED <<oVars, gVars, kVars, bVars, lVars, wVars, hVars>>

\* reader.readValue()
ReaderReadValue ==
    /\ rPc \in {"ready", "read"}
    /\ \E res \in {Reader_readValue(rReader)} :
          /\ rReader' = res.r
          /\ rOut' = [by |-> "readValue", length |-> wordSize, loose |-> FALSE, before |-> rReader.offset,
                      res |-> IF res.ok THEN Ok(res.v) ELSE Err(res.err)]
    /\ rPc' = "read"
    /\ UNCHANGED <<oVars, gVars, kVars, bVars, lVars, wVars, hVars>>

ReaderNext == ReaderReadBytes \/ ReaderReadValue

SpecReader == ReaderInit /\ [][ReaderNext]_vars

\* the bytes of the data from the cursor before the read on
bytesRead(length) == SubSeq(rReader.data, rOut.before + 1, rOut.before + length)

\* the words the read covers, and whether they or, in loose mode, the
\* bytes themselves lie within the data
alignedExtent == ((rOut.length + wordSize - 1) \div wordSize) * wordSize
withinData == rOut.before + alignedExtent <= Len(rReader.data)
looseWithinData ==
    rReader.allowLoose /\ rOut.loose /\ rOut.before + rOut.length <= Len(rReader.data)

\* C25: after any sequence of readBytes and readValue, strict or loose,
\* 0 <= consumed <= data length.  A read whose aligned extent lies within
\* the data returns its bytes of the data and moves the cursor by the
\* extent; one covered by the loose exception returns its bytes and moves
\* the cursor by the length; any other read raises buffer-overrun and
\* leaves the cursor where it was, so no byte beyond the data is returned.
C25_CursorSafe ==
    /\ rPc \in {"ready", "read"} => 0 <= rReader.offset /\ rReader.offset <= Len(rReader.data)
    /\ rPc = "read" =>
          IF withinData \/ looseWithinData
          THEN /\ rOut.res.ok
               /\ rOut.res.v = IF rOut.by = "readValue" THEN BigNumber_fromBytes(bytesRead(wordSize))
                               ELSE bytesRead(rOut.length)
               /\ rReader.offset = rOut.before + (IF withinData THEN alignedExtent ELSE rOut.length)
          ELSE /\ ~rOut.res.ok /\ rOut.res.err = makeError("data out-of-bounds", BUFFER_OVERRUN)
               /\ rReader.offset = rOut.before

\* after a loose read has left the cursor inside a word, a read past the
\* end of the data is refused and the cursor stays
C25_Witness ==
    /\ rPc = "read"
    /\ rReader.offset % wordSize # 0 /\ rReader.offset = rOut.before
    /\ rOut.by = "readValue"
    /\ ~rOut.res.ok /\ rOut.res.err.code = BUFFER_OVERRUN

\* ------------------------------------------------------------------------
\* Logger: setCensorship, makeError and throwError
\* ------------------------------------------------------------------------
LoggerMessages == {"invalid type", "data out-of-bounds", "censored error", ""}
LoggerCodes == {INVALID_ARGUMENT, BUFFER_OVERRUN, NUMERIC_FAULT, "undefined"}
LoggerParams == {NoParams, ParamsOf({}), ParamsOf({"argument", "value"})}

\* _censorErrors and _permanentCensorErrors as the module sets them
LoggerInit ==
    /\ lPc = "ready"
    /\ lCensor = FALSE
    /\ lPermanent = FALSE
    /\ lOut = None
    /\ oIdle /\ gIdle /\ kIdle /\ bIdle /\ rIdle /\ wIdle /\ hIdle

\* Logger.setCensorship(censorship, permanent); permanent left out is falsy
LoggerSetCensorship ==
    /\ lPc = "ready"
    /\ \E censorship \in BOOLEAN, permanent \in BOOLEAN :
          \E after \in {Logger_setCensorship(lCensor, lPermanent, censorship, permanent)} :
             /\ lCensor' = after.censorErrors
             /\ lPermanent' = after.permanentCensorErrors
             /\ lOut' = [by |-> "setCensorship", censorship |-> censorship, permanent |-> permanent,
                         res |-> after.res]
    /\ UNCHANGED <<lPc, oVars, gVars, kVars, bVars, rVars, wVars, hVars>>

\* logger.makeError(message, code, params)
LoggerMakeError ==
    /\ lPc = "ready"
    /\ \E message \in LoggerMessages, code \in LoggerCodes, params \in LoggerParams :
          lOut' = [by |-> "makeError", message |-> message, code |-> code, params |-> params,
                   res |-> Logger_makeError(lCensor, message, code, params, 1)]
    /\ UNCHANGED <<lPc, lCensor, lPermanent, oVars, gVars, kVars, bVars, rVars, wVars, hVars>>

\* logger.throwError(message, code, params)
LoggerThrowError ==
    /\ lPc = "ready"
    /\ \E message \in LoggerMessages, code \in LoggerCodes, params \in LoggerParams :
          lOut' = [by |-> "throwError", message |-> message, code |-> code, params |-> params,
                   res |-> Logger_throwError(lCensor, message, code, params)]
    /\ UNCHANGED <<lPc, lCensor, lPermanent, oVars, gVars, kVars, bVars, rVars, wVars, hVars>>

LoggerNext == LoggerSetCensorship \/ LoggerMakeError \/ LoggerThrowError

SpecLogger == LoggerInit /\ [][LoggerNext]_vars

\* C26: once censorship is permanent it stays enabled and permanent: every
\* later step leaves both flags as they are, a later setCensorship throws
\* or returns; setCensorship(false, true) always throws and changes no
\* flag; at all times permanent implies enabled.
C26_CensorshipLock ==
    /\ [](lPermanent = TRUE => lCensor = TRUE)
    /\ [][lPermanent = TRUE => lPermanent' = TRUE /\ lCensor' = TRUE]_vars
    /\ [][lOut'.by = "setCensorship" /\ ~lOut'.censorship /\ lOut'.permanent
             => ~lOut'.res.ok /\ lCensor' = lCensor /\ lPermanent' = lPermanent]_vars
    /\ [][lOut'.by = "setCensorship" /\ ~lOut'.res.ok => lCensor' = lCensor /\ lPermanent' = lPermanent]_vars

\* censorship is permanent and a later setCensorship(true, false) has thrown
C26_Witness ==
    /\ lPermanent = TRUE /\ lCensor = TRUE
    /\ lOut.by = "setCensorship" /\ lOut.censorship /\ ~lOut.permanent /\ ~lOut.res.ok

\* the error makeError is to return: censored, the message 'censored
\* error', the code given and no params; else the message, code and params
expectedError ==
    IF lCensor
    THEN [k |-> "error", code |-> IF lOut.code = "undefined" THEN UNKNOWN_ERROR ELSE lOut.code,
          reason |-> "censored error", params |-> {}]
    ELSE [k |-> "error", code |-> IF lOut.code = "undefined" THEN UNKNOWN_ERROR ELSE lOut.code,
          reason |-> lOut.message, params |-> IF lOut.params.given THEN lOut.params.keys ELSE {}]

\* C28 as stated: makeError returns an error in both censorship states,
\* with the message, code and params given when censorship is disabled
\* and with 'censored error', the code and no params when it is enabled.
C28_MakeErrorReturns ==
    lPc = "ready" /\ lOut # None /\ lOut.by = "makeError" => lOut.res = Ok(expectedError)

\* what holds: with censorship disabled makeError returns the error and
\* throwError throws it; with censorship enabled makeError calls itself
\* until the stack is exhausted, and both end in the RangeError thrown.
C28_MakeErrorUncensored ==
    lPc = "ready" /\ lOut # None /\ lOut.by \in {"makeError", "throwError"} =>
        IF lCensor THEN lOut.res = Err(RangeError)
        ELSE lOut.res = (IF lOut.by = "makeError" THEN Ok(expectedError) ELSE Err(expectedError))

\* ------------------------------------------------------------------------
\* unpack: the positions of the values
\* ------------------------------------------------------------------------
\* the value is one the coder of the type decodes, or the error kept for
\* the field of that name
decodedByType(value, param) ==
    IF value.k = "error" THEN value.name = param.name
    ELSE CASE param.baseType \in {"uint", "int"} -> value.k = "num"
           [] param.baseType = "bool" -> value.k = "bool"
           [] param.baseType = "string" -> value.k = "string"
           [] param.baseType = "address" -> value.k = "address"
           [] param.baseType \in {"bytes", "bytesN"} -> value.k = "hex"
           [] param.baseType \in {"array", "tuple"} -> value.k = "result"
           [] param.baseType = "" -> value.k = "null"

\* C27 as stated: the Result of unpack has one positional element for each
\* coder, a Null coder included, element i is the value decoded by coder
\* i, and the value under the unique name of coder i is that value.
C27_Aligned ==
    dPc = "decoded" /\ dRes.ok =>
        /\ Len(dRes.v.x) = Len(dTypes)
        /\ \A i \in 1..Len(dTypes) :
              /\ decodedByType(dRes.v.x[i], dTypes[i])
              /\ isExposed(exposedName(dTypes[i].name))
                    => exposedValue(exposedName(dTypes[i].name)) = dRes.v.x[i]

\* the fields of the empty type
nullFields == {i \in 1..Len(dTypes) : dTypes[i].baseType = ""}

\* what holds: the Result has one element for each coder that is not a
\* Null coder, in the order of the coders; without a Null coder the
\* positions and the names are those of the coders, and with one the
\* values after it sit one position early, under the names of the coders
\* before them.
C27_AlignedButNull ==
    dPc = "decoded" /\ dRes.ok =>
        /\ Len(dRes.v.x) = Len(dTypes) - Cardinality(nullFields)
        /\ \A i \in 1..Len(dTypes) :
              i \notin nullFields =>
                  decodedByType(dRes.v.x[i - Cardinality({j \in nullFields : j < i})], dTypes[i])
        /\ nullFields = {} =>
              \A i \in 1..Len(dTypes) :
                  isExposed(exposedName(dTypes[i].name))
                      => exposedValue(exposedName(dTypes[i].name)) = dRes.v.x[i]

\* ------------------------------------------------------------------------
\* Writer: length and data
\* ------------------------------------------------------------------------
\* the chunks a Writer of the model may hold
MaxChunks == 3

\* values for writeValue and the updaters: one of 33 bytes and a negative
\* one are refused
WriterValues ==
    {Zero, One, BigNumber_fromNumber(258), MaxUint256, toBigNumber(FALSE, <<1>> \o Zeros(wordSize)), NegativeOne}

\* bytes for writeBytes: none, less than a word, a word, more than a word
WriterBytes == {<<>>, <<7>>, Ones(wordSize), <<1, 2>> \o Ones(wordSize)}

\* Writers built the same way, to append
WriterOthers(w0) ==
    {w0, Writer_writeValue(w0, One).w, Writer_writeBytes(Writer_writeUpdatableValue(w0), <<7>>)}

\* new Writer(32), as the codec makes it, or new Writer()
WriterInit ==
    /\ wPc = "ready"
    /\ \E wordSizeGiven \in {0, wordSize} : wWriter = Writer_new(wordSizeGiven)
    /\ wUpdaters = {}
    /\ wOut = None
    /\ oIdle /\ gIdle /\ kIdle /\ bIdle /\ rIdle /\ lIdle /\ hIdle

\* writer.writeValue(value)
WriterWriteValue ==
    /\ wPc = "ready" /\ Len(wWriter.data) < MaxChunks
    /\ \E value \in WriterValues :
          \E res \in {Writer_writeValue(wWriter, value)} :
             /\ wWriter' = res.w
             /\ wOut' = [by |-> "writeValue", before |-> wWriter, ok |-> res.ok, offset |-> 0]
    /\ UNCHANGED <<wPc, wUpdaters, oVars, gVars, kVars, bVars, rVars, lVars, hVars>>

\* writer.writeBytes(value)
WriterWriteBytes ==
    /\ wPc = "ready" /\ Len(wWriter.data) < MaxChunks
    /\ \E bytes \in WriterBytes : wWriter' = Writer_writeBytes(wWriter, bytes)
    /\ wOut' = [by |-> "writeBytes", before |-> wWriter, ok |-> TRUE, offset |-> 0]
    /\ UNCHANGED <<wPc, wUpdaters, oVars, gVars, kVars, bVars, rVars, lVars, hVars>>

\* writer.writeUpdatableValue(): the updater returned is kept
WriterWriteUpdatableValue ==
    /\ wPc = "ready" /\ Len(wWriter.data) < MaxChunks
    /\ wWriter' = Writer_writeUpdatableValue(wWriter)
    /\ wUpdaters' = wUpdaters \cup {Len(wWriter.data)}
    /\ wOut' = [by |-> "writeUpdatableValue", before |-> wWriter, ok |-> TRUE, offset |-> Len(wWriter.data)]
    /\ UNCHANGED <<wPc, oVars, gVars, kVars, bVars, rVars, lVars, hVars>>

\* writer.appendWriter(other)
WriterAppendWriter ==
    /\ wPc = "ready" /\ Len(wWriter.data) < MaxChunks
    /\ \E other \in WriterOthers(Writer_new(Len(wWriter.padding))) :
          wWriter' = Writer_appendWriter(wWriter, other)
    /\ wOut' = [by |-> "appendWriter", before |-> wWriter, ok |-> TRUE, offset |-> 0]
    /\ UNCHANGED <<wPc, wUpdaters, oVars, gVars, kVars, bVars, rVars, lVars, hVars>>

\* a call of an updater returned by writeUpdatableValue
WriterUpdate ==
    /\ wPc = "ready"
    /\ \E offset \in wUpdaters, value \in WriterValues :
          \E res \in {Writer_update(wWriter, offset, value)} :
             /\ wWriter' = res.w
             /\ wOut' = [by |-> "update", before |-> wWriter, ok |-> res.ok, offset |-> offset]
    /\ UNCHANGED <<wPc, wUpdaters, oVars, gVars, kVars, bVars, rVars, lVars, hVars>>

WriterNext ==
    WriterWriteValue \/ WriterWriteBytes \/ WriterWriteUpdatableValue \/ WriterAppendWriter \/ WriterUpdate

SpecWriter == WriterInit /\ [][WriterNext]_vars

\* length is the number of bytes of data, in whole words; an updater has
\* replaced the word it reserved by a word and nothing else; a write that
\* failed has changed nothing
lengthInvariant ==
    /\ wWriter.len = Len(Writer_data(wWriter))
    /\ wWriter.len % wordSize = 0
    /\ wOut # None /\ wOut.by = "update" /\ wOut.ok =>
          /\ wWriter.len = wOut.before.len
          /\ Len(wWriter.data) = Len(wOut.before.data)
          /\ Len(wWriter.data[wOut.offset + 1]) = wordSize
          /\ \A i \in 1..Len(wWriter.data) : i # wOut.offset + 1 => wWriter.data[i] = wOut.before.data[i]
    /\ wOut # None /\ ~wOut.ok => wWriter = wOut.before

\* C29 as stated: for a Writer of word size 32, after any sequence of
\* writeValue, writeBytes, writeUpdatableValue, appendWriter and calls of
\* the updaters, length is the number of bytes in data and a multiple of
\* 32; an updater replaces the word it reserved only; a failed writeValue
\* leaves the Writer unchanged.
C29_LengthInvariant == wPc = "ready" => lengthInvariant

\* what holds: the same for a Writer constructed with the word size, as
\* the codec constructs it; new Writer() has an empty padding.
C29_LengthInvariantGiven == wPc = "ready" /\ Len(wWriter.padding) = wordSize => lengthInvariant

\* ------------------------------------------------------------------------
\* arrayify and hexlify with the hexPad option
\* ------------------------------------------------------------------------
\* parseInt(pair, 16) stored in a Uint8Array: '0x' parses to NaN, stored as
\* 0; one digit is its value
parseIntByte(pair) ==
    IF pair = <<"0", "x">> THEN 0
    ELSE IF Len(pair) = 1 THEN parseHexDigit(pair[1])
    ELSE 16 * parseHexDigit(pair[1]) + parseHexDigit(pair[2])

\* arrayify(value, {hexPad}) of a string: hex is value.substring(2), and
\* for the padding on the left it becomes '0x0' + hex.substring(2)
arrayify_hexPad(value, hexPad) ==
    IF ~isHexString(value) THEN throwArgumentError("invalid arrayify value")
    ELSE IF Len(value) % 2 = 1 /\ hexPad \notin {"left", "right"}
    THEN throwArgumentError("hex data is odd-length")
    ELSE The({ Ok([i \in 1..((Len(hex) + 1) \div 2) |->
                      parseIntByte(SubSeq(hex, 2 * i - 1, Min(2 * i, Len(hex))))]) :
               hex \in {IF Len(value) % 2 = 0 THEN substring(value, 2)
                        ELSE IF hexPad = "left" THEN <<"0", "x", "0">> \o substring(substring(value, 2), 2)
                        ELSE substring(value, 2) \o <<"0">>} })

\* hexlify(value, {hexPad}) of a string
hexlify_hexPad(value, hexPad) ==
    IF ~isHexString(value) THEN throwArgumentError("invalid hexlify value")
    ELSE IF Len(value) % 2 = 0 THEN Ok(toLowerCase(value))
    ELSE IF hexPad = "left" THEN Ok(toLowerCase(<<"0", "x", "0">> \o substring(value, 2)))
    ELSE IF hexPad = "right" THEN Ok(toLowerCase(value \o <<"0">>))
    ELSE throwArgumentError("hex data is odd-length")

\* the digits of the hex strings, and the strings of up to MaxDigits digits
HexAlphabet == {"0", "1", "a", "F"}
MaxDigits == 3
HexStrings == UNION {{<<"0", "x">> \o digits : digits \in [1..n -> HexAlphabet]} : n \in 0..MaxDigits}

HexPads == {"left", "right", "undefined"}
HexBytes == UNION {[1..n -> {0, 7, 255}] : n \in 0..2}

HexInit ==
    /\ hPc = "start"
    /\ \/ \E value \in HexStrings, hexPad \in HexPads : hIn = [typeof |-> "string", value |-> value, hexPad |-> hexPad]
       \/ \E value \in HexBytes : hIn = [typeof |-> "bytes", value |-> value, hexPad |-> "undefined"]
    /\ hOut = None
    /\ oIdle /\ gIdle /\ kIdle /\ bIdle /\ rIdle /\ lIdle /\ wIdle

\* arrayify(value, {hexPad}); bytes are copied
HexArrayify ==
    /\ hPc = "start"
    /\ hOut' = [by |-> "arrayify",
                res |-> IF hIn.typeof = "string" THEN arrayify_hexPad(hIn.value, hIn.hexPad) ELSE Ok(hIn.value)]
    /\ hPc' = "done"
    /\ UNCHANGED <<hIn, oVars, gVars, kVars, bVars, rVars, lVars, wVars>>

\* arrayify(hexlify(value, {hexPad}))
HexArrayifyHexlify ==
    /\ hPc = "start"
    /\ hOut' = [by |-> "arrayify of hexlify",
                res |-> The({ IF ~hex.ok THEN hex ELSE arrayify(hex.v) :
                              hex \in {IF hIn.typeof = "string" THEN hexlify_hexPad(hIn.value, hIn.hexPad)
                                       ELSE Ok(hexlify(hIn.value))} })]
    /\ hPc' = "done"
    /\ UNCHANGED <<hIn, oVars, gVars, kVars, bVars, rVars, lVars, wVars>>

HexNext == HexArrayify \/ HexArrayifyHexlify

SpecHex == HexInit /\ [][HexNext]_vars

\* the bytes of an odd-length hex string with one zero nibble added on the
\* side of hexPad
paddedDigits ==
    IF hIn.hexPad = "left" THEN <<"0">> \o substring(hIn.value, 2) ELSE substring(hIn.value, 2) \o <<"0">>
paddedBytes ==
    [i \in 1..(Len(paddedDigits) \div 2) |->
        16 * parseHexDigit(paddedDigits[2 * i - 1]) + parseHexDigit(paddedDigits[2 * i])]

\* the bytes of '0' and the digits after the first two, the only digits
\* that remain of '0x0' + hex.substring(2)
keptDigits == <<"0">> \o substring(substring(hIn.value, 2), 2)
keptBytes ==
    IF Len(keptDigits) = 1 THEN <<0>>
    ELSE [i \in 1..(Len(keptDigits) \div 2) |->
             16 * parseHexDigit(keptDigits[2 * i - 1]) + parseHexDigit(keptDigits[2 * i])]

oddPadded == hIn.typeof = "string" /\ Len(hIn.value) % 2 = 1 /\ hIn.hexPad \in {"left", "right"}

\* C30 as stated: for an odd-length hex string h and hexPad left or right,
\* arrayify(h, {hexPad}) and arrayify(hexlify(h, {hexPad})) are both the
\* bytes of h with a zero nibble added on that side; for a byte array b,
\* arrayify(hexlify(b)) is b.
C30_PaddingAgrees ==
    hPc = "done" =>
        /\ oddPadded => hOut.res = Ok(paddedBytes)
        /\ hIn.typeof = "bytes" => hOut.res = Ok(hIn.value)

\* what holds: the two agree for the padding on the right, hexlify pads on
\* both sides as stated and bytes make the round trip; for the padding on
\* the left arrayify returns a zero byte followed by the bytes of '0' and
\* the digits after the first two, which is not the padded value when the
\* first digit is not 0.
C30_PaddingAgreesRight ==
    hPc = "done" =>
        /\ oddPadded /\ (hIn.hexPad = "right" \/ hOut.by = "arrayify of hexlify") => hOut.res = Ok(paddedBytes)
        /\ hIn.typeof = "bytes" => hOut.res = Ok(hIn.value)
        /\ oddPadded /\ hIn.hexPad = "left" /\ hOut.by = "arrayify" =>
              /\ hOut.res = Ok(<<0>> \o keptBytes)
              /\ hIn.value[3] # "0" => hOut.res.v # paddedBytes

====
